---- MODULE Spec2Model ----
(***************************************************************************)
(* A model of obsidian-mcp: the vault file service (internal/filesystem),  *)
(* the path filter (internal/pathfilter), the frontmatter handler          *)
(* (internal/frontmatter) and the tool handlers that drive them            *)
(* (cmd/obsidian-mcp).                                                     *)
(*                                                                         *)
(* A Go string is a sequence of one-character strings.  A path on disk is  *)
(* an absolute, cleaned path string.  Operations of the service are        *)
(* operators that yield the returned value, the vault they leave and the   *)
(* checks and file accesses they made; each is written as the chain of     *)
(* its stages, a stage taking what the stages before it computed.          *)
(***************************************************************************)
EXTENDS Integers, Sequences, FiniteSets, TLC

VARIABLES
    cfg,    \* the PathFilter the service was constructed with
    fs,     \* the vault on disk: absolute path -> node
    pre,    \* the vault as it was when the current call began
    call,   \* the call being made
    ret,    \* what the last operation returned
    log,    \* the checks and file accesses the last operation made, in order
    pc,     \* where the caller is
    scan    \* the worker pool of a scan: its channels and goroutines

vars == <<cfg, fs, pre, call, ret, log, pc, scan>>

\* no scan is running
NoScan == [op |-> "none"]

----------------------------------------------------------------------------
(* Strings *)

\* all sequences over S of length at most n
SeqsUpTo(S, n) == UNION {[1..k -> S] : k \in 0..n}

Min(a, b) == IF a <= b THEN a ELSE b

\* s[a:b] of Go, 0-based, half-open; defined only for 0 <= a <= b <= len(s)
Slice(s, a, b) == [i \in 1..(b - a) |-> s[a + i]]

\* whether s[a:b] is inside the bounds Go checks at run time
SliceOK(s, a, b) == 0 <= a /\ a <= b /\ b <= Len(s)

HasPrefix(s, p) == Len(s) >= Len(p) /\ \A i \in 1..Len(p) : s[i] = p[i]

HasSuffix(s, p) ==
    Len(s) >= Len(p) /\ \A i \in 1..Len(p) : s[Len(s) - Len(p) + i] = p[i]

\* strings.TrimPrefix
TrimPrefix(s, p) == IF HasPrefix(s, p) THEN Slice(s, Len(p), Len(s)) ELSE s

\* the 0-based positions at which sub occurs in s
Occurrences(s, sub) ==
    {i \in 0..(Len(s) - Len(sub)) : \A j \in 1..Len(sub) : s[i + j] = sub[j]}

\* the least member of a set of integers, -1 if there is none
First(S) == IF S = {} THEN -1 ELSE CHOOSE i \in S : \A k \in S : i <= k

\* the greatest member of a set of integers, -1 if there is none
Last(S) == IF S = {} THEN -1 ELSE CHOOSE i \in S : \A k \in S : i >= k

\* strings.Index: 0-based index of the first occurrence of sub in s, or -1
Index(s, sub) == First(Occurrences(s, sub))

\* strings.LastIndex
LastIndex(s, sub) == Last(Occurrences(s, sub))

\* the white space unicode.IsSpace recognises, as far as it occurs here
IsSpace(c) == c \in {" ", "\n", "\t", "\r"}

\* s cut down to the positions keep spans
Span(s, keep) == IF keep = {} THEN <<>> ELSE Slice(s, First(keep) - 1, Last(keep))

\* strings.TrimSpace
TrimSpace(s) == Span(s, {i \in 1..Len(s) : ~IsSpace(s[i])})

RECURSIVE Concat(_)
\* the concatenation of a sequence of strings
Concat(ss) == IF ss = <<>> THEN <<>> ELSE Head(ss) \o Concat(Tail(ss))

RECURSIVE JoinWith(_, _)
\* strings.Join
JoinWith(ss, sep) ==
    IF ss = <<>> THEN <<>>
    ELSE IF Len(ss) = 1 THEN ss[1]
    ELSE ss[1] \o sep \o JoinWith(Tail(ss), sep)

RECURSIVE Split(_, _)
RECURSIVE SplitAt(_, _, _)
\* strings.Split with the first separator at index i
SplitAt(s, sep, i) ==
    IF i = -1 THEN <<s>>
    ELSE <<Slice(s, 0, i)>> \o Split(Slice(s, i + 1, Len(s)), sep)

\* strings.Split on a one-character separator
Split(s, sep) == SplitAt(s, sep, Index(s, <<sep>>))

----------------------------------------------------------------------------
(* path/filepath, for Unix paths *)

DotDot == <<".", ".">>

RECURSIVE CleanSegs(_, _, _)
\* the elements filepath.Clean keeps: empty and "." elements are dropped, ".."
\* removes the element before it, is dropped at the root of a rooted path and
\* is kept at the start of a relative one
CleanSegs(segs, out, rooted) ==
    IF segs = <<>> THEN out
    ELSE IF Head(segs) = <<>> \/ Head(segs) = <<".">>
    THEN CleanSegs(Tail(segs), out, rooted)
    ELSE IF Head(segs) # DotDot
    THEN CleanSegs(Tail(segs), Append(out, Head(segs)), rooted)
    ELSE IF out # <<>> /\ out[Len(out)] # DotDot
    THEN CleanSegs(Tail(segs), SubSeq(out, 1, Len(out) - 1), rooted)
    ELSE CleanSegs(Tail(segs), IF rooted THEN out ELSE Append(out, DotDot), rooted)

\* a cleaned path written out from its elements
FromSegs(segs, rooted) ==
    IF rooted THEN <<"/">> \o JoinWith(segs, <<"/">>)
    ELSE IF segs = <<>> THEN <<".">>
    ELSE JoinWith(segs, <<"/">>)

\* filepath.Clean
Clean(p) ==
    IF p = <<>> THEN <<".">>
    ELSE FromSegs(CleanSegs(Split(p, "/"), <<>>, p[1] = "/"), p[1] = "/")

\* filepath.Join of two elements: empty elements are ignored, the rest joined
\* with a separator and cleaned
Join(a, b) ==
    IF a = <<>> /\ b = <<>> THEN <<>>
    ELSE Clean(IF b = <<>> THEN a ELSE IF a = <<>> THEN b ELSE a \o <<"/">> \o b)

\* filepath.Abs of a path that is already absolute
Abs(p) == Clean(p)

\* filepath.Dir
Dir(p) == Clean(Slice(p, 0, LastIndex(p, <<"/">>) + 1))

\* the number of leading elements two element lists share
CommonLen(a, b) ==
    Last({k \in 0..Min(Len(a), Len(b)) : \A i \in 1..k : a[i] = b[i]})

\* the elements of a cleaned absolute path
Segs(p) == CleanSegs(Split(p, "/"), <<>>, TRUE)

\* one ".." per element of base beyond the k common elements, followed by the
\* elements of targ beyond them
RelFrom(bs, ts, k) ==
    JoinWith([i \in 1..(Len(bs) - k) |-> DotDot] \o SubSeq(ts, k + 1, Len(ts)), <<"/">>)

RelSegs(bs, ts) == RelFrom(bs, ts, CommonLen(bs, ts))

\* filepath.Rel for two cleaned absolute paths
RelClean(b, t) == IF b = t THEN <<".">> ELSE RelSegs(Segs(b), Segs(t))

\* filepath.Rel(base, targ) for two absolute paths: "." when they are the same
\* path, else the way up from base to the common ancestor and down to targ
Rel(base, targ) == RelClean(Clean(base), Clean(targ))

----------------------------------------------------------------------------
(* filesystem.Service.ResolvePath *)

\* the absolute vault root the service is constructed with
VaultPath == <<"/", "v">>

PathError(trimmed) == [ok |-> FALSE, err |-> [kind |-> "Traversal", path |-> trimmed]]

\* the containment test, looking for "../" instead of ".."
ContainedSlashTest(trimmed, absPath) ==
    IF HasPrefix(Rel(VaultPath, absPath), <<".", ".", "/">>)
    THEN PathError(trimmed)
    ELSE [ok |-> TRUE, abs |-> absPath]

\* the containment test of ResolvePath: the path relative to the vault must
\* not begin with ".."
Contained(trimmed, absPath) ==
    IF HasPrefix(Rel(VaultPath, absPath), DotDot)
    THEN PathError(trimmed)
    ELSE [ok |-> TRUE, abs |-> absPath]

\* ResolvePath once the white space is trimmed
ResolveTrimmed(trimmed) ==
    Contained(trimmed, Abs(Join(VaultPath, TrimPrefix(trimmed, <<"/">>))))

\* ResolvePath: [ok |-> TRUE, abs |-> path] or [ok |-> FALSE, err |-> ...]
ResolvePath(relativePath) == ResolveTrimmed(TrimSpace(relativePath))

----------------------------------------------------------------------------
(* pathfilter.PathFilter *)

LowerChars ==
    <<"a", "b", "c", "d", "e", "f", "g", "h", "i", "j", "k", "l", "m",
      "n", "o", "p", "q", "r", "s", "t", "u", "v", "w", "x", "y", "z">>

UpperChars ==
    <<"A", "B", "C", "D", "E", "F", "G", "H", "I", "J", "K", "L", "M",
      "N", "O", "P", "Q", "R", "S", "T", "U", "V", "W", "X", "Y", "Z">>

DigitChars == {"0", "1", "2", "3", "4", "5", "6", "7", "8", "9"}

Range(f) == {f[i] : i \in DOMAIN f}

\* [a-zA-Z0-9]
IsAlnum(c) == c \in Range(LowerChars) \cup Range(UpperChars) \cup DigitChars

ToLowerChar(c) ==
    IF c \in Range(UpperChars)
    THEN LowerChars[CHOOSE i \in DOMAIN UpperChars : UpperChars[i] = c]
    ELSE c

\* strings.ToLower
ToLower(s) == [i \in DOMAIN s |-> ToLowerChar(s[i])]

\* strings.ReplaceAll(s, "\\", "/")
NormalizeSeparators(s) == [i \in DOMAIN s |-> IF s[i] = "\\" THEN "/" ELSE s[i]]

\* the built-in ignore patterns of pathfilter.New
DefaultIgnoredPatterns ==
    << <<".", "o", "b", "s", "i", "d", "i", "a", "n", "/", "*", "*">>,
       <<".", "g", "i", "t", "/", "*", "*">>,
       <<"n", "o", "d", "e", "_", "m", "o", "d", "u", "l", "e", "s", "/", "*", "*">>,
       <<".", "D", "S", "_", "S", "t", "o", "r", "e">>,
       <<"T", "h", "u", "m", "b", "s", ".", "d", "b">> >>

\* the built-in extension allow-list of pathfilter.New
DefaultAllowedExtensions ==
    << <<".", "m", "d">>,
       <<".", "m", "a", "r", "k", "d", "o", "w", "n">>,
       <<".", "t", "x", "t">> >>

\* pathfilter.New: the caller's lists are appended to the built-in ones; a nil
\* config is modelled as two empty lists
NewPathFilter(config) ==
    [ignoredPatterns |-> DefaultIgnoredPatterns \o config.IgnoredPatterns,
     allowedExtensions |-> DefaultAllowedExtensions \o config.AllowedExtensions]

RECURSIVE GlobTokens(_)
\* the regular expression simpleGlobMatch builds, as a list of tokens: after
\* QuoteMeta, "**" becomes ".*" (any), a remaining "*" becomes "[^/]*" (seg),
\* "?" becomes "[^/]" (one), and every other character matches itself
GlobTokens(p) ==
    IF p = <<>> THEN <<>>
    ELSE IF Len(p) >= 2 /\ p[1] = "*" /\ p[2] = "*"
         THEN <<[t |-> "any"]>> \o GlobTokens(Slice(p, 2, Len(p)))
    ELSE IF p[1] = "*" THEN <<[t |-> "seg"]>> \o GlobTokens(Tail(p))
    ELSE IF p[1] = "?" THEN <<[t |-> "one"]>> \o GlobTokens(Tail(p))
    ELSE <<[t |-> "lit", c |-> p[1]]>> \o GlobTokens(Tail(p))

RECURSIVE TokensMatch(_, _)
\* whether the anchored expression ^tokens$ matches s; "." of the expression
\* does not match a newline
TokensMatch(toks, s) ==
    IF toks = <<>> THEN s = <<>>
    ELSE IF Head(toks).t \in {"lit", "one"}
    THEN /\ s # <<>>
         /\ IF Head(toks).t = "lit" THEN s[1] = Head(toks).c ELSE s[1] # "/"
         /\ TokensMatch(Tail(toks), Tail(s))
    ELSE \E n \in 0..Len(s) :
            /\ \A i \in 1..n : s[i] # (IF Head(toks).t = "seg" THEN "/" ELSE "\n")
            /\ TokensMatch(Tail(toks), Slice(s, n, Len(s)))

\* PathFilter.simpleGlobMatch
simpleGlobMatch(pattern, path) ==
    TokensMatch(GlobTokens(NormalizeSeparators(pattern)), path)

\* the longest extension isFile accepts
MaxExtLen == 10

\* 1-10 characters, all of them alphanumeric
ValidExtension(extension) ==
    /\ Len(extension) >= 1
    /\ Len(extension) <= MaxExtLen
    /\ \A i \in 1..Len(extension) : IsAlnum(extension[i])

\* whether a path element with its last dot at lastDotIndex has an extension
HasExtension(lastComponent, lastDotIndex) ==
    IF lastDotIndex = -1 \/ lastDotIndex = 0 THEN FALSE
    ELSE ValidExtension(Slice(lastComponent, lastDotIndex + 1, Len(lastComponent)))

\* the part of a path after its last slash, the whole path if it has none
LastComponent(path) == Slice(path, LastIndex(path, <<"/">>) + 1, Len(path))

IsFileName(lastComponent) ==
    HasExtension(lastComponent, LastIndex(lastComponent, <<".">>))

\* PathFilter.isFile
isFile(path) ==
    IF HasSuffix(path, <<"/">>) THEN FALSE ELSE IsFileName(LastComponent(path))

\* IsAllowed once the separators are normalized
AllowedNormalized(pf, normalizedPath) ==
    IF \E i \in DOMAIN pf.ignoredPatterns :
           simpleGlobMatch(pf.ignoredPatterns[i], normalizedPath)
    THEN FALSE
    ELSE IF Len(pf.allowedExtensions) > 0 /\ isFile(normalizedPath)
    THEN \E i \in DOMAIN pf.allowedExtensions :
             HasSuffix(ToLower(normalizedPath), ToLower(pf.allowedExtensions[i]))
    ELSE TRUE

\* PathFilter.IsAllowed
IsAllowed(pf, path) == AllowedNormalized(pf, NormalizeSeparators(path))

----------------------------------------------------------------------------
(* Frontmatter values: the `any` trees a map[string]any can hold *)

\* a nil map, or a nil value
Nil == [k |-> "nil"]

Str(s) == [k |-> "str", v |-> s]

\* a func value
Fn == [k |-> "func"]

SeqV(items) == [k |-> "seq", items |-> items]

\* a map; m is a function from keys (KeyS, KeyI) to values
MapV(m) == [k |-> "map", m |-> m]

KeyS(s) == [t |-> "str", v |-> s]

KeyI(n) == [t |-> "int", v |-> n]

EmptyFn == [x \in {} |-> Nil]

\* make(map[string]any)
EmptyMap == MapV(EmptyFn)

\* len(frontmatter): 0 for a nil map and for an empty one
MapLen(f) == IF f.k = "map" THEN Cardinality(DOMAIN f.m) ELSE 0

\* the characters of the model in byte order
Ascii ==
    <<"\t", "\n", "\r", " ", "!", "#", "$", "%", "&", "(", ")", "*", "+",
      ",", "-", ".", "/", "0", "1", "2", "3", "4", "5", "6", "7", "8", "9",
      ":", ";", "<", "=", ">", "?", "@">> \o UpperChars \o
    <<"[", "\\", "]", "^", "_">> \o LowerChars \o <<"{", "|", "}", "~">>

\* the position of a character in the byte order Go compares strings by
CharRank(c) == CHOOSE i \in DOMAIN Ascii : Ascii[i] = c

RECURSIVE StrLess(_, _)
\* a < b for Go strings
StrLess(a, b) ==
    IF b = <<>> THEN FALSE
    ELSE IF a = <<>> THEN TRUE
    ELSE IF a[1] = b[1] THEN StrLess(Tail(a), Tail(b))
    ELSE CharRank(a[1]) < CharRank(b[1])

Digits == <<"0", "1", "2", "3", "4", "5", "6", "7", "8", "9">>

\* fmt.Sprintf("%d", n) for 0 <= n <= 9
Itoa(n) == <<Digits[n + 1]>>

\* fmt.Sprintf("%v", key)
KeyText(key) == IF key.t = "str" THEN key.v ELSE Itoa(key.v)

\* key order: integer keys first, then string keys in string order
KeyLess(a, b) ==
    IF a.t = "int" /\ b.t = "int" THEN a.v < b.v
    ELSE IF a.t = "int" THEN TRUE
    ELSE IF b.t = "int" THEN FALSE
    ELSE StrLess(a.v, b.v)

\* the first key of a non-empty set in key order
LeastKey(ks) == CHOOSE x \in ks : \A y \in ks \ {x} : KeyLess(x, y)

RECURSIVE SortedKeys(_)
RECURSIVE KeysFrom(_, _)
KeysFrom(lo, ks) == <<lo>> \o SortedKeys(ks \ {lo})

\* the keys of a map in key order
SortedKeys(ks) == IF ks = {} THEN <<>> ELSE KeysFrom(LeastKey(ks), ks)

----------------------------------------------------------------------------
(* gopkg.in/yaml.v3, for the documents the model writes and reads: block   *)
(* mappings of plain one-line scalars                                      *)

Delim == <<"-", "-", "-">>

DelimNL == <<"-", "-", "-", "\n">>

NLDelimNL == <<"\n", "-", "-", "-", "\n">>

NLDelim == <<"\n", "-", "-", "-">>

\* a scalar yaml writes and reads back plain: lower-case letters
IsPlain(s) == s # <<>> /\ \A i \in DOMAIN s : s[i] \in Range(LowerChars)

RECURSIVE MarshalEntries(_, _)
MarshalEntries(m, keys) ==
    IF keys = <<>> THEN <<>>
    ELSE Head(keys).v \o <<":", " ">> \o m[Head(keys)].v \o <<"\n">>
         \o MarshalEntries(m, Tail(keys))

\* yaml.Marshal of a mapping of plain scalars: one "key: value" line per key,
\* keys in sorted order
yamlMarshal(f) == MarshalEntries(f.m, SortedKeys(DOMAIN f.m))

RECURSIVE HasFunc(_)
\* whether a value tree holds a func anywhere
HasFunc(obj) ==
    CASE obj.k = "func" -> TRUE
      [] obj.k = "seq" -> \E i \in DOMAIN obj.items : HasFunc(obj.items[i])
      [] obj.k = "map" -> \E key \in DOMAIN obj.m : HasFunc(obj.m[key])
      [] OTHER -> FALSE

\* yaml.Marshal panics on a value it has no encoding for, such as a func
yamlMarshalPanics(f) == HasFunc(f)

\* a "key: value" line, if both are plain scalars
KeyValue(key, val) ==
    IF IsPlain(key) /\ IsPlain(val) THEN [t |-> "entry", key |-> key, val |-> val]
    ELSE [t |-> "other"]

\* a line that is not blank, with its first ": " at index i
YamlEntry(line, i) ==
    IF i > 0
    THEN KeyValue(Slice(line, 0, i), TrimSpace(Slice(line, i + 2, Len(line))))
    ELSE [t |-> "other"]

\* one line of a document: "blank", "entry" (key: value), or "other"
YamlLine(line) ==
    IF TrimSpace(line) = <<>> THEN [t |-> "blank"]
    ELSE YamlEntry(line, Index(line, <<":", " ">>))

\* the lines before the first "---" line
UntilMarker(body) ==
    SubSeq(body, 1, First({i \in DOMAIN body : body[i] = Delim} \cup {Len(body) + 1}) - 1)

\* a leading "---" line is the document start marker
AfterMarker(lines) == IF lines[1] = Delim THEN Tail(lines) ELSE lines

\* the lines of the first document of a stream: a "---" line after the
\* document start starts the next document
FirstDocument(text) == UntilMarker(AfterMarker(Split(text, "\n")))

\* the mapping the entry lines make, an error if a key repeats
MappingOf(parsed, entries) ==
    IF \E i, j \in entries : i # j /\ parsed[i].key = parsed[j].key
    THEN [err |-> TRUE]
    ELSE IF entries = {} THEN [err |-> FALSE, map |-> Nil]
    ELSE [err |-> FALSE,
          map |-> MapV([key \in {KeyS(parsed[i].key) : i \in entries} |->
                    Str(parsed[CHOOSE i \in entries : parsed[i].key = key.v].val)])]

\* the document the lines make, an error if a line is not part of a mapping
Document(parsed) ==
    IF \E i \in DOMAIN parsed : parsed[i].t = "other" THEN [err |-> TRUE]
    ELSE MappingOf(parsed, {i \in DOMAIN parsed : parsed[i].t = "entry"})

ParsedLines(lines) == [i \in DOMAIN lines |-> YamlLine(lines[i])]

\* yaml.Unmarshal into a map[string]any: an error for a document that is not a
\* mapping or repeats a key, a nil map for an empty document, else the map
yamlUnmarshal(text) == Document(ParsedLines(FirstDocument(text)))

----------------------------------------------------------------------------
(* frontmatter.Handler *)

\* a run-time panic (slice bounds out of range)
Panic == [panic |-> TRUE]

ParsedNote(fm, content, original) ==
    [panic |-> FALSE, Frontmatter |-> fm, Content |-> content,
     OriginalContent |-> original]

\* the result Parse starts from and falls back to: no frontmatter, the whole
\* text as the body
Unparsed(content) == ParsedNote(EmptyMap, content, content)

\* Parse once the block is decoded, with a block that fails to decode taken for
\* an empty mapping
ParseDecodedLenient(content, endIndex, y) ==
    IF ~SliceOK(content, endIndex + 4 + 5, Len(content)) THEN Panic
    ELSE ParsedNote(IF y.err \/ y.map = Nil THEN EmptyMap ELSE y.map,
                    Slice(content, endIndex + 4 + 5, Len(content)),
                    content)

\* Parse once the block is decoded
ParseDecoded(content, endIndex, y) ==
    IF y.err THEN Unparsed(content)
    ELSE IF ~SliceOK(content, endIndex + 4 + 5, Len(content)) THEN Panic
    ELSE ParsedNote(IF y.map = Nil THEN EmptyMap ELSE y.map,
                    Slice(content, endIndex + 4 + 5, Len(content)),
                    content)

\* Parse of a text whose block ends at endIndex
ParseBlock(content, endIndex) ==
    IF ~SliceOK(content, 4, endIndex + 4) THEN Panic
    ELSE ParseDecoded(content, endIndex,
                      yamlUnmarshal(Slice(content, 4, endIndex + 4)))

\* Parse of a text that opens a block, idx the index of the closing line
ParseFrom(content, idx) ==
    IF idx # -1 THEN ParseBlock(content, idx)
    ELSE IF HasSuffix(content, NLDelim) THEN ParseBlock(content, Len(content) - 4 - 4)
    ELSE Unparsed(content)

\* Handler.Parse
Parse(content) ==
    IF ~HasPrefix(content, DelimNL) THEN Unparsed(content)
    ELSE ParseFrom(content, Index(Slice(content, 4, Len(content)), NLDelimNL))

\* Stringify with the line break after the closing delimiter left out
StringifyNoBreak(frontmatter, content) ==
    IF MapLen(frontmatter) = 0 THEN [panic |-> FALSE, text |-> content]
    ELSE IF yamlMarshalPanics(frontmatter) THEN Panic
    ELSE [panic |-> FALSE,
          text |-> DelimNL \o yamlMarshal(frontmatter) \o Delim \o content]

\* Handler.Stringify
Stringify(frontmatter, content) ==
    IF MapLen(frontmatter) = 0 THEN [panic |-> FALSE, text |-> content]
    ELSE IF yamlMarshalPanics(frontmatter) THEN Panic
    ELSE [panic |-> FALSE,
          text |-> DelimNL \o yamlMarshal(frontmatter) \o DelimNL \o content]

\* the path of a map entry: currentPath of checkForProblematicValues
CurrentPath(path, key) ==
    IF path = <<>> THEN KeyText(key) ELSE path \o <<".">> \o KeyText(key)

\* the error for a key that is not a string: it names the key alone
KeyError(path, key) ==
    IF key.t # "str" THEN <<[kind |-> "key", at |-> KeyText(key)]>> ELSE <<>>

RECURSIVE checkForProblematicValues(_, _)
RECURSIVE CheckEntries(_, _, _)
\* the errors of the entries of a map, walked in key order (Go leaves the
\* order of a map walk open)
CheckEntries(obj, path, keys) ==
    Concat([i \in DOMAIN keys |->
        KeyError(path, keys[i])
        \o checkForProblematicValues(obj.m[keys[i]], CurrentPath(path, keys[i]))])

\* Handler.checkForProblematicValues: the errors it appends
checkForProblematicValues(obj, path) ==
    CASE obj.k = "func" -> <<[kind |-> "func", at |-> path]>>
      [] obj.k = "seq" ->
            Concat([i \in DOMAIN obj.items |->
                checkForProblematicValues(obj.items[i],
                    path \o <<"[">> \o Itoa(i - 1) \o <<"]">>)])
      [] obj.k = "map" -> CheckEntries(obj, path, SortedKeys(DOMAIN obj.m))
      [] OTHER -> <<>>

\* the validation result for a list of errors
ValidationResult(errors) == [IsValid |-> errors = <<>>, Errors |-> errors]

\* Handler.Validate
Validate(frontmatter) ==
    ValidationResult(checkForProblematicValues(frontmatter, <<>>))

----------------------------------------------------------------------------
(* The operating system's view of the vault.  fs maps each existing        *)
(* absolute path to a node; "/" and the vault root are directories.        *)

FileNode(data) == [kind |-> "file", data |-> data]

DirNode == [kind |-> "dir"]

RootPath == <<"/">>

\* the proper ancestors of an absolute path, the root included
Ancestors(p) ==
    {Slice(p, 0, i) : i \in {j \in 1..(Len(p) - 1) : p[j + 1] = "/"}} \cup
        (IF p = RootPath THEN {} ELSE {RootPath})

\* the paths directly inside directory p
Children(f, p) == {q \in DOMAIN f : q # p /\ Dir(q) = p}

\* a component of the path that should be a directory is a file (ENOTDIR)
ThroughFile(f, p) == \E a \in Ancestors(p) : a \in DOMAIN f /\ f[a].kind = "file"

\* the error of an access to a path that does not exist
Missing(f, p) == IF ThroughFile(f, p) THEN "Other" ELSE "NotExist"

\* os.Stat: whether it succeeds
osStatOK(f, p) == p \in DOMAIN f

\* os.ReadFile
osReadFile(f, p) ==
    IF p \notin DOMAIN f THEN [err |-> Missing(f, p)]
    ELSE IF f[p].kind = "dir" THEN [err |-> "Other"]
    ELSE [err |-> "None", data |-> f[p].data]

\* os.MkdirAll
osMkdirAll(f, p) ==
    IF p \in DOMAIN f
    THEN [err |-> IF f[p].kind = "dir" THEN "None" ELSE "Other", fs |-> f]
    ELSE IF ThroughFile(f, p) THEN [err |-> "Other", fs |-> f]
    ELSE [err |-> "None",
          fs |-> [q \in DOMAIN f \cup Ancestors(p) \cup {p} |->
                    IF q \in DOMAIN f THEN f[q] ELSE DirNode]]

\* os.WriteFile: creates or truncates the file; the directory must exist
osWriteFile(f, p, data) ==
    IF p \in DOMAIN f /\ f[p].kind = "dir" THEN [err |-> "Other", fs |-> f]
    ELSE IF Dir(p) \notin DOMAIN f \/ f[Dir(p)].kind # "dir"
    THEN [err |-> "Other", fs |-> f]
    ELSE [err |-> "None",
          fs |-> [q \in DOMAIN f \cup {p} |-> IF q = p THEN FileNode(data) ELSE f[q]]]

\* os.Remove: removes a file or an empty directory
osRemove(f, p) ==
    IF p \notin DOMAIN f THEN [err |-> Missing(f, p), fs |-> f]
    ELSE IF f[p].kind = "dir" /\ Children(f, p) # {} THEN [err |-> "Other", fs |-> f]
    ELSE [err |-> "None", fs |-> [q \in DOMAIN f \ {p} |-> f[q]]]

\* the last element of a path
Base(p) == Slice(p, LastIndex(p, <<"/">>) + 1, Len(p))

\* os.ReadDir: the names and kinds of the entries of a directory
osReadDir(f, p) ==
    IF p \notin DOMAIN f THEN [err |-> Missing(f, p)]
    ELSE IF f[p].kind # "dir" THEN [err |-> "Other"]
    ELSE [err |-> "None",
          entries |-> {[name |-> Base(q), isDir |-> f[q].kind = "dir"] :
                          q \in Children(f, p)}]

----------------------------------------------------------------------------
(* filesystem.Service: every operation yields the value it returns (ret),   *)
(* the vault it leaves (fs) and the checks and file accesses it made, in    *)
(* order (log)                                                              *)

Ev(ev, path, ok) == [ev |-> ev, path |-> path, ok |-> ok]

\* the events that touch the disk
DiskEvents == {"Stat", "ReadFile", "ReadDir", "MkdirAll", "WriteFile", "Remove"}

Err(kind) == [status |-> "error", err |-> kind]

Out(rv, f, lg) == [ret |-> rv, fs |-> f, log |-> lg]

\* Service.IsDirectory, given what ResolvePath and IsAllowed answer
IsDirectoryOf(f, path, r, a) ==
    LET l1 == <<Ev("Resolve", path, r.ok)>>
        l2 == l1 \o <<Ev("IsAllowed", path, a)>>
    IN  IF ~r.ok THEN [isDir |-> FALSE, log |-> l1]
        ELSE IF ~a THEN [isDir |-> FALSE, log |-> l2]
        ELSE [isDir |-> osStatOK(f, r.abs) /\ f[r.abs].kind = "dir",
              log |-> l2 \o <<Ev("Stat", r.abs, osStatOK(f, r.abs))>>]

\* Service.IsDirectory
IsDirectory(pf, f, path) ==
    IsDirectoryOf(f, path, ResolvePath(path), IsAllowed(pf, path))

\* ReadNote from os.ReadFile on
ReadParsed(f, c, lg) ==
    IF c.err = "NotExist" THEN Out(Err("NotFound"), f, lg)
    ELSE IF c.err # "None" THEN Out(Err("ReadFailed"), f, lg)
    ELSE IF Parse(c.data).panic THEN Out([status |-> "panic"], f, lg)
    ELSE Out([status |-> "ok", note |-> Parse(c.data)], f, lg)

\* Service.ReadNote, given what ResolvePath, IsAllowed and IsDirectory answer
ReadNoteOf(f, path, r, a, d) ==
    LET l1 == <<Ev("Resolve", path, r.ok)>>
        l2 == l1 \o <<Ev("IsAllowed", path, a)>>
        l3 == l2 \o d.log
    IN  IF ~r.ok THEN Out(Err("Traversal"), f, l1)
        ELSE IF ~a THEN Out(Err("AccessDenied"), f, l2)
        ELSE IF d.isDir THEN Out(Err("IsDirectory"), f, l3)
        ELSE ReadParsed(f, osReadFile(f, r.abs),
                        l3 \o <<Ev("ReadFile", r.abs, osReadFile(f, r.abs).err = "None")>>)

\* Service.ReadNote
ReadNote(pf, f, path) ==
    ReadNoteOf(f, path, ResolvePath(path), IsAllowed(pf, path), IsDirectory(pf, f, path))

\* maps.Copy(dst, src) on the top-level keys
MapsCopy(dst, src) ==
    MapV([key \in DOMAIN dst.m \cup DOMAIN src.m |->
            IF key \in DOMAIN src.m THEN src.m[key] ELSE dst.m[key]])

\* the tail of WriteNote once the directories are made
WriteFile(fullPath, text, m, lg) ==
    IF m.err # "None" THEN Out(Err("MkdirFailed"), m.fs, lg)
    ELSE Out(IF osWriteFile(m.fs, fullPath, text).err # "None"
             THEN Err("WriteFailed") ELSE [status |-> "ok"],
             osWriteFile(m.fs, fullPath, text).fs,
             lg \o <<Ev("WriteFile", fullPath,
                        osWriteFile(m.fs, fullPath, text).err = "None")>>)

\* the tail of WriteNote: create the directories, then write the file
WriteOut(f, fullPath, text, lg) ==
    WriteFile(fullPath, text, osMkdirAll(f, Dir(fullPath)),
              lg \o <<Ev("MkdirAll", Dir(fullPath),
                         osMkdirAll(f, Dir(fullPath)).err = "None")>>)

\* WriteNote from Handler.Stringify on; the encoding of a non-empty mapping is
\* logged
WriteEncoded(f, fullPath, fm, s, lg) ==
    IF s.panic
    THEN Out([status |-> "panic"], f,
             IF MapLen(fm) = 0 THEN lg ELSE lg \o <<Ev("Encode", <<>>, TRUE)>>)
    ELSE WriteOut(f, fullPath, s.text,
                  IF MapLen(fm) = 0 THEN lg ELSE lg \o <<Ev("Encode", <<>>, TRUE)>>)

\* overwrite, and append or prepend when the note cannot be read
WriteFresh(f, fullPath, params, lg) ==
    IF params.Frontmatter # Nil
    THEN WriteEncoded(f, fullPath, params.Frontmatter,
                      Stringify(params.Frontmatter, params.Content), lg)
    ELSE WriteOut(f, fullPath, params.Content, lg)

\* the mode, "overwrite" when none is given
ModeOf(params) == IF params.Mode = "" THEN "overwrite" ELSE params.Mode

\* the merged frontmatter of append and prepend
MergedFrontmatter(params, existingNote) ==
    IF params.Frontmatter # Nil
    THEN MapsCopy(existingNote.Frontmatter, params.Frontmatter)
    ELSE existingNote.Frontmatter

\* the new body of append and prepend; no other mode sets it
NewContent(params, existingNote) ==
    IF ModeOf(params) = "append" THEN existingNote.Content \o params.Content
    ELSE IF ModeOf(params) = "prepend" THEN params.Content \o existingNote.Content
    ELSE <<>>

\* WriteNote from the mode switch on
WriteByMode(f, fullPath, params, existing, lg) ==
    IF ModeOf(params) = "overwrite" THEN WriteFresh(f, fullPath, params, lg)
    ELSE IF existing.ret.status = "panic"
    THEN Out([status |-> "panic"], f, lg \o existing.log)
    ELSE IF existing.ret.status = "error"
    THEN WriteFresh(f, fullPath, params, lg \o existing.log)
    ELSE WriteEncoded(f, fullPath, MergedFrontmatter(params, existing.ret.note),
                      Stringify(MergedFrontmatter(params, existing.ret.note),
                                NewContent(params, existing.ret.note)),
                      lg \o existing.log)

\* WriteNote from the validation on, with the directories made before the
\* result of the validation is looked at
WriteValidatedLate(f, fullPath, params, validation, existing, lg) ==
    IF params.Frontmatter # Nil /\ ~validation.IsValid
    THEN Out(Err("InvalidFrontmatter"), osMkdirAll(f, Dir(fullPath)).fs,
             lg \o <<Ev("Validate", <<>>, FALSE),
                     Ev("MkdirAll", Dir(fullPath), osMkdirAll(f, Dir(fullPath)).err = "None")>>)
    ELSE WriteByMode(f, fullPath, params, existing,
                     IF params.Frontmatter = Nil THEN lg
                     ELSE lg \o <<Ev("Validate", <<>>, TRUE)>>)

\* WriteNote from the validation on
WriteValidated(f, fullPath, params, validation, existing, lg) ==
    IF params.Frontmatter # Nil /\ ~validation.IsValid
    THEN Out(Err("InvalidFrontmatter"), f, lg \o <<Ev("Validate", <<>>, FALSE)>>)
    ELSE WriteByMode(f, fullPath, params, existing,
                     IF params.Frontmatter = Nil THEN lg
                     ELSE lg \o <<Ev("Validate", <<>>, TRUE)>>)

\* Service.WriteNote, given what ResolvePath, IsAllowed, Validate and ReadNote
\* answer
WriteNoteOf(f, params, r, a, validation, existing) ==
    LET l1 == <<Ev("Resolve", params.Path, r.ok)>>
        l2 == l1 \o <<Ev("IsAllowed", params.Path, a)>>
    IN  IF ~r.ok THEN Out(Err("Traversal"), f, l1)
        ELSE IF ~a THEN Out(Err("AccessDenied"), f, l2)
        ELSE WriteValidated(f, r.abs, params, validation, existing, l2)

\* Service.WriteNote
WriteNote(pf, f, params) ==
    WriteNoteOf(f, params, ResolvePath(params.Path), IsAllowed(pf, params.Path),
                Validate(params.Frontmatter), ReadNote(pf, f, params.Path))

\* strings.Count with overlapping occurrences counted too
CountOverlapping(s, sub) == Cardinality(Occurrences(s, sub))

RECURSIVE Count(_, _)
RECURSIVE CountFrom(_, _, _)
CountFrom(s, sub, i) ==
    IF i = -1 THEN 0 ELSE 1 + Count(Slice(s, i + Len(sub), Len(s)), sub)

\* strings.Count for a non-empty sub: non-overlapping occurrences, left to right
Count(s, sub) == CountFrom(s, sub, Index(s, sub))

RECURSIVE Replace(_, _, _, _)
RECURSIVE ReplaceAt(_, _, _, _, _)
ReplaceAt(s, old, new, n, i) ==
    IF n = 0 \/ i = -1 THEN s
    ELSE Slice(s, 0, i) \o new
         \o Replace(Slice(s, i + Len(old), Len(s)), old, new, n - 1)

\* strings.Replace for a non-empty old: the first n occurrences, all if n < 0
Replace(s, old, new, n) == ReplaceAt(s, old, new, n, Index(s, old))

\* strings.ReplaceAll
ReplaceAll(s, old, new) == Replace(s, old, new, -1)

\* the length PatchNote cuts oldString to in its not-found message
PreviewLen == 50

Ellipsis == <<".", ".", ".">>

\* oldString as the not-found message shows it
Truncated(oldString) ==
    IF Len(oldString) > PreviewLen
    THEN Slice(oldString, 0, PreviewLen) \o Ellipsis
    ELSE oldString

PatchResult(success, message, matchCount) ==
    [status |-> "ok", Success |-> success, Message |-> message, MatchCount |-> matchCount]

\* the replacement with replaceAll ignored: the first occurrence only
UpdatedContentFirst(params, fullContent) ==
    Replace(fullContent, params.OldString, params.NewString, 1)

\* the content PatchNote writes
UpdatedContent(params, fullContent) ==
    IF params.ReplaceAll
    THEN ReplaceAll(fullContent, params.OldString, params.NewString)
    ELSE Replace(fullContent, params.OldString, params.NewString, 1)

\* PatchNote from os.WriteFile on
PatchWritten(params, occurrences, w, lg) ==
    IF w.err # "None"
    THEN Out(PatchResult(FALSE, [kind |-> "WriteFailed"], 0), w.fs, lg)
    ELSE Out(PatchResult(TRUE, [kind |-> "Replaced",
                                n |-> IF params.ReplaceAll THEN occurrences ELSE 1],
                         occurrences), w.fs, lg)

\* PatchNote from the count of occurrences on
PatchCounted(f, params, fullContent, occurrences, r, lg) ==
    IF occurrences = 0
    THEN Out(PatchResult(FALSE, [kind |-> "NotFound",
                                 preview |-> Truncated(params.OldString)], 0), f, lg)
    ELSE IF ~params.ReplaceAll /\ occurrences > 1
    THEN Out(PatchResult(FALSE, [kind |-> "Ambiguous", n |-> occurrences],
                         occurrences), f, lg)
    ELSE IF ~r.ok
    THEN Out(PatchResult(FALSE, [kind |-> "ResolveFailed"], 0), f,
             lg \o <<Ev("Resolve", params.Path, FALSE)>>)
    ELSE PatchWritten(params, occurrences,
                      osWriteFile(f, r.abs, UpdatedContent(params, fullContent)),
                      lg \o <<Ev("Resolve", params.Path, TRUE),
                              Ev("WriteFile", r.abs,
                                 osWriteFile(f, r.abs,
                                     UpdatedContent(params, fullContent)).err = "None")>>)

\* PatchNote from ReadNote on
PatchRead(f, params, rd, r, lg) ==
    IF rd.ret.status = "panic" THEN Out([status |-> "panic"], f, lg \o rd.log)
    ELSE IF rd.ret.status = "error"
    THEN Out(PatchResult(FALSE, [kind |-> "ReadFailed", err |-> rd.ret.err], 0),
             f, lg \o rd.log)
    ELSE PatchCounted(f, params, rd.ret.note.OriginalContent,
                      Count(rd.ret.note.OriginalContent, params.OldString),
                      r, lg \o rd.log)

\* Service.PatchNote with the test for a blank oldString left out
PatchNoteBlankAllowed(f, params, a, rd, r) ==
    IF ~a
    THEN Out(PatchResult(FALSE, [kind |-> "AccessDenied"], 0), f,
             <<Ev("IsAllowed", params.Path, a)>>)
    ELSE IF params.OldString = <<>>
    THEN Out(PatchResult(FALSE, [kind |-> "OldStringEmpty"], 0), f,
             <<Ev("IsAllowed", params.Path, a)>>)
    ELSE IF params.NewString = <<>>
    THEN Out(PatchResult(FALSE, [kind |-> "NewStringEmpty"], 0), f,
             <<Ev("IsAllowed", params.Path, a)>>)
    ELSE IF params.OldString = params.NewString
    THEN Out(PatchResult(FALSE, [kind |-> "MustDiffer"], 0), f,
             <<Ev("IsAllowed", params.Path, a)>>)
    ELSE PatchRead(f, params, rd, r, <<Ev("IsAllowed", params.Path, a)>>)

\* Service.PatchNote, given what IsAllowed, ReadNote and ResolvePath answer
PatchNoteOf(f, params, a, rd, r) ==
    IF ~a
    THEN Out(PatchResult(FALSE, [kind |-> "AccessDenied"], 0), f,
             <<Ev("IsAllowed", params.Path, a)>>)
    ELSE IF params.OldString = <<>> \/ TrimSpace(params.OldString) = <<>>
    THEN Out(PatchResult(FALSE, [kind |-> "OldStringEmpty"], 0), f,
             <<Ev("IsAllowed", params.Path, a)>>)
    ELSE IF params.NewString = <<>>
    THEN Out(PatchResult(FALSE, [kind |-> "NewStringEmpty"], 0), f,
             <<Ev("IsAllowed", params.Path, a)>>)
    ELSE IF params.OldString = params.NewString
    THEN Out(PatchResult(FALSE, [kind |-> "MustDiffer"], 0), f,
             <<Ev("IsAllowed", params.Path, a)>>)
    ELSE PatchRead(f, params, rd, r, <<Ev("IsAllowed", params.Path, a)>>)

\* Service.PatchNote
PatchNote(pf, f, params) ==
    PatchNoteOf(f, params, IsAllowed(pf, params.Path), ReadNote(pf, f, params.Path),
                ResolvePath(params.Path))

\* the least of a non-empty set of strings
LeastString(ss) == CHOOSE x \in ss : \A y \in ss \ {x} : StrLess(x, y)

RECURSIVE SortStrings(_)
RECURSIVE StringsFrom(_, _)
StringsFrom(lo, ss) == <<lo>> \o SortStrings(ss \ {lo})

\* sort.Strings of a set of distinct strings
SortStrings(ss) == IF ss = {} THEN <<>> ELSE StringsFrom(LeastString(ss), ss)

\* the path ListDirectory tests an entry by
EntryPath(path, name) == IF path # <<>> THEN path \o <<"/">> \o name ELSE name

\* the listing of the entries the filter admits
Listing(kept) ==
    [status |-> "ok",
     Files |-> SortStrings({e.name : e \in {x \in kept : ~x.isDir}}),
     Directories |-> SortStrings({e.name : e \in {x \in kept : x.isDir}})]

\* the filter applied to each entry, in the order os.ReadDir yields them
ListEntries(pf, f, path, entries, names, lg) ==
    Out(Listing({e \in entries : IsAllowed(pf, EntryPath(path, e.name))}), f,
        lg \o [i \in DOMAIN names |->
                Ev("IsAllowed", EntryPath(path, names[i]),
                   IsAllowed(pf, EntryPath(path, names[i])))])

\* ListDirectory from os.ReadDir on
ListRead(pf, f, path, d, lg) ==
    IF d.err = "NotExist" THEN Out(Err("NotFound"), f, lg)
    ELSE IF d.err # "None" THEN Out(Err("ListFailed"), f, lg)
    ELSE ListEntries(pf, f, path, d.entries,
                     SortStrings({e.name : e \in d.entries}), lg)

\* Service.ListDirectory of a path that is not ".", given what ResolvePath
\* answers
ListDirectoryOf(pf, f, path, r) ==
    IF ~r.ok THEN Out(Err("Traversal"), f, <<Ev("Resolve", path, FALSE)>>)
    ELSE ListRead(pf, f, path, osReadDir(f, r.abs),
                  <<Ev("Resolve", path, TRUE),
                    Ev("ReadDir", r.abs, osReadDir(f, r.abs).err = "None")>>)

\* the path ListDirectory works with: "." is the vault root
ListPath(path) == IF path = <<".">> THEN <<>> ELSE path

\* Service.ListDirectory
ListDirectory(pf, f, path) ==
    ListDirectoryOf(pf, f, ListPath(path), ResolvePath(ListPath(path)))

Result(success, message) == [status |-> "ok", Success |-> success, Message |-> message]

\* DeleteNote from os.Remove on
DeleteRemoved(rm, lg) ==
    IF rm.err = "NotExist" THEN Out(Result(FALSE, "NotFound"), rm.fs, lg)
    ELSE IF rm.err # "None" THEN Out(Result(FALSE, "DeleteFailed"), rm.fs, lg)
    ELSE Out(Result(TRUE, "Deleted"), rm.fs, lg)

\* DeleteNote after the confirmation check, given what ResolvePath, IsAllowed
\* and IsDirectory answer
DeleteNoteOf(f, path, r, a, d) ==
    LET l1 == <<Ev("Resolve", path, r.ok)>>
        l2 == l1 \o <<Ev("IsAllowed", path, a)>>
        l3 == l2 \o d.log
    IN  IF ~r.ok THEN Out(Result(FALSE, "ResolveFailed"), f, l1)
        ELSE IF ~a THEN Out(Result(FALSE, "AccessDenied"), f, l2)
        ELSE IF d.isDir THEN Out(Result(FALSE, "NotAFile"), f, l3)
        ELSE DeleteRemoved(osRemove(f, r.abs),
                           l3 \o <<Ev("Remove", r.abs, osRemove(f, r.abs).err = "None")>>)

\* Service.DeleteNote with the confirmation check left out
DeleteNoteUnconfirmed(pf, f, params) ==
    DeleteNoteOf(f, params.Path, ResolvePath(params.Path),
                 IsAllowed(pf, params.Path), IsDirectory(pf, f, params.Path))

\* Service.DeleteNote
DeleteNote(pf, f, params) ==
    IF params.Path # params.ConfirmPath
    THEN Out(Result(FALSE, "ConfirmationMismatch"), f, <<>>)
    ELSE DeleteNoteOf(f, params.Path, ResolvePath(params.Path),
                      IsAllowed(pf, params.Path), IsDirectory(pf, f, params.Path))

\* MoveNote from os.Remove on
MoveRemoved(rm, lg) ==
    IF rm.err # "None" THEN Out(Result(FALSE, "DeleteSourceFailed"), rm.fs, lg)
    ELSE Out(Result(TRUE, "Moved"), rm.fs, lg)

\* MoveNote from os.WriteFile on
MoveWritten(oldFullPath, newFullPath, w, lg) ==
    IF w.err # "None"
    THEN Out(Result(FALSE, "WriteFailed"), w.fs,
             lg \o <<Ev("WriteFile", newFullPath, FALSE)>>)
    ELSE MoveRemoved(osRemove(w.fs, oldFullPath),
                     lg \o <<Ev("WriteFile", newFullPath, TRUE),
                             Ev("Remove", oldFullPath,
                                osRemove(w.fs, oldFullPath).err = "None")>>)

\* MoveNote from os.MkdirAll on, with the test for an existing target left out
MoveMadeUnchecked(oldFullPath, newFullPath, content, overwrite, m, lg) ==
    IF m.err # "None" THEN Out(Result(FALSE, "MkdirFailed"), m.fs, lg)
    ELSE MoveWritten(oldFullPath, newFullPath,
                     osWriteFile(m.fs, newFullPath, content), lg)

\* MoveNote from os.MkdirAll on
MoveMade(oldFullPath, newFullPath, content, overwrite, m, lg) ==
    IF m.err # "None" THEN Out(Result(FALSE, "MkdirFailed"), m.fs, lg)
    ELSE IF ~overwrite /\ osStatOK(m.fs, newFullPath)
    THEN Out(Result(FALSE, "TargetExists"), m.fs,
             lg \o <<Ev("Stat", newFullPath, TRUE)>>)
    ELSE MoveWritten(oldFullPath, newFullPath,
                     osWriteFile(m.fs, newFullPath, content),
                     IF overwrite THEN lg
                     ELSE lg \o <<Ev("Stat", newFullPath, FALSE)>>)

\* MoveNote from os.ReadFile on
MoveRead(f, oldFullPath, newFullPath, overwrite, c, lg) ==
    IF c.err = "NotExist" THEN Out(Result(FALSE, "SourceNotFound"), f, lg)
    ELSE IF c.err # "None" THEN Out(Result(FALSE, "ReadSourceFailed"), f, lg)
    ELSE MoveMade(oldFullPath, newFullPath, c.data, overwrite,
                  osMkdirAll(f, Dir(newFullPath)),
                  lg \o <<Ev("MkdirAll", Dir(newFullPath),
                             osMkdirAll(f, Dir(newFullPath)).err = "None")>>)

\* Service.MoveNote, given what IsAllowed and ResolvePath answer for both paths
MoveNoteOf(f, params, a1, a2, r1, r2) ==
    LET l1 == <<Ev("IsAllowed", params.OldPath, a1)>>
        l2 == l1 \o <<Ev("IsAllowed", params.NewPath, a2)>>
        l3 == l2 \o <<Ev("Resolve", params.OldPath, r1.ok)>>
        l4 == l3 \o <<Ev("Resolve", params.NewPath, r2.ok)>>
    IN  IF ~a1 THEN Out(Result(FALSE, "AccessDeniedOld"), f, l1)
        ELSE IF ~a2 THEN Out(Result(FALSE, "AccessDeniedNew"), f, l2)
        ELSE IF ~r1.ok THEN Out(Result(FALSE, "ResolveOldFailed"), f, l3)
        ELSE IF ~r2.ok THEN Out(Result(FALSE, "ResolveNewFailed"), f, l4)
        ELSE MoveRead(f, r1.abs, r2.abs, params.Overwrite, osReadFile(f, r1.abs),
                      l4 \o <<Ev("ReadFile", r1.abs, osReadFile(f, r1.abs).err = "None")>>)

\* Service.MoveNote
MoveNote(pf, f, params) ==
    MoveNoteOf(f, params, IsAllowed(pf, params.OldPath), IsAllowed(pf, params.NewPath),
               ResolvePath(params.OldPath), ResolvePath(params.NewPath))

----------------------------------------------------------------------------
(* cmd/obsidian-mcp: the tool handlers *)

Yes == <<"y", "e", "s">>

\* handleDelete once DeleteNote has answered
Deleted(result) ==
    Out(IF ~result.ret.Success THEN Err(result.ret.Message)
        ELSE [status |-> "ok", Success |-> TRUE],
        result.fs, result.log)

\* handleDelete
handleDelete(pf, f, input) ==
    IF input.Confirm # Yes THEN Out(Err("NotConfirmed"), f, <<>>)
    ELSE Deleted(DeleteNote(pf, f, [Path |-> TrimSpace(input.Path),
                                    ConfirmPath |-> TrimSpace(input.Path)]))

----------------------------------------------------------------------------
(* Configurations and vaults the specifications start from *)

NoRet == [status |-> "none"]

\* pathfilter.New(nil)
NilConfig == [IgnoredPatterns |-> <<>>, AllowedExtensions |-> <<>>]

\* a caller's configuration: one more ignore pattern, one more extension
CallerConfig ==
    [IgnoredPatterns |-> << <<"v", "/", "*">> >>,
     AllowedExtensions |-> << <<".", "j", "s">> >>]

Configs == {NewPathFilter(NilConfig), NewPathFilter(CallerConfig)}

\* builds a vault from a function of absolute paths to nodes, adding the root
\* directories
Vault(nodes) ==
    [q \in DOMAIN nodes \cup {RootPath, VaultPath} |->
        IF q \in DOMAIN nodes THEN nodes[q] ELSE DirNode]

\* an action's effect: what the operation returned, the vault it left, and
\* the checks and accesses it made
Return(o) ==
    /\ ret' = o.ret
    /\ fs' = o.fs
    /\ log' = o.log

----------------------------------------------------------------------------
(* SpecResolve: ResolvePath and ReadNote on every short path string *)

PathChars == {"/", ".", "v"}

MaxPathLen == 7

\* every path over PathChars up to MaxPathLen, and the shorter ones with white
\* space before or after
ResolveInputs ==
    SeqsUpTo(PathChars, MaxPathLen) \cup
    {<<" ">> \o p : p \in SeqsUpTo(PathChars, MaxPathLen - 2)} \cup
    {p \o <<" ">> : p \in SeqsUpTo(PathChars, MaxPathLen - 2)}

\* a note inside the vault and a file beside the vault
ResolveVault ==
    Vault([q \in {<<"/", "v", "/", "v">>, <<"/", "v", "v">>} |-> FileNode(<<"x">>)])

InitResolve ==
    /\ cfg \in Configs
    /\ fs = ResolveVault
    /\ pre = ResolveVault
    /\ call \in {[op |-> o, path |-> p] : o \in {"ResolvePath", "ReadNote"},
                                          p \in ResolveInputs}
    /\ ret = NoRet
    /\ log = <<>>
    /\ pc = "ready"
    /\ scan = NoScan

DoResolvePath ==
    /\ pc = "ready"
    /\ call.op = "ResolvePath"
    /\ ret' = ResolvePath(call.path)
    /\ pc' = "done"
    /\ UNCHANGED <<cfg, fs, pre, call, log, scan>>

DoReadNote ==
    /\ pc = "ready"
    /\ call.op = "ReadNote"
    /\ Return(ReadNote(cfg, fs, call.path))
    /\ pc' = "done"
    /\ UNCHANGED <<cfg, pre, call, scan>>

NextResolve == DoResolvePath \/ DoReadNote

SpecResolve == InitResolve /\ [][NextResolve]_vars

\* the elements of the vault root
VaultSegs == << <<"v">> >>

RECURSIVE Walk(_, _)
\* where a walk over path elements from a directory ends: "." and empty
\* elements stay, ".." goes to the parent (the root is its own parent), a name
\* goes down
Walk(elems, at) ==
    IF elems = <<>> THEN at
    ELSE IF Head(elems) = <<>> \/ Head(elems) = <<".">> THEN Walk(Tail(elems), at)
    ELSE IF Head(elems) = DotDot
    THEN Walk(Tail(elems), IF at = <<>> THEN at ELSE SubSeq(at, 1, Len(at) - 1))
    ELSE Walk(Tail(elems), Append(at, Head(elems)))

\* the location a relative path names, as a list of elements from the root
CanonicalLocation(path) ==
    Walk(Split(TrimPrefix(TrimSpace(path), <<"/">>), "/"), VaultSegs)

\* a location that is the vault root or beneath it
InVault(elems) == Len(elems) >= Len(VaultSegs) /\ SubSeq(elems, 1, Len(VaultSegs)) = VaultSegs

\* an absolute path string that is the vault root or beneath it
PathInVault(abs) == abs = VaultPath \/ HasPrefix(abs, VaultPath \o <<"/">>)

\* C1: a path whose canonical location is outside the vault fails ResolvePath
\* with the traversal error, whatever the filter configuration; a path
\* ResolvePath returns is the vault root or beneath it; and ReadNote of a
\* path outside the vault reports the traversal error
C1_TraversalRejected ==
    pc = "done" =>
        /\ call.op = "ResolvePath" =>
            /\ ~InVault(CanonicalLocation(call.path)) =>
                    ~ret.ok /\ ret.err.kind = "Traversal"
            /\ ret.ok => PathInVault(ret.abs)
        /\ call.op = "ReadNote" =>
            /\ ~InVault(CanonicalLocation(call.path)) =>
                    ret.status = "error" /\ ret.err = "Traversal"
            /\ \A i \in DOMAIN log :
                    log[i].ev \in DiskEvents => PathInVault(log[i].path)

\* C1 witness: ReadNote of "v/../.." (a folder, then up twice) was refused
C1_Witness ==
    /\ pc = "done"
    /\ call.op = "ReadNote"
    /\ call.path = <<"v", "/", ".", ".", "/", ".", ".">>
    /\ ret.status = "error"
    /\ ret.err = "Traversal"

----------------------------------------------------------------------------
(* SpecCodec: Parse, Stringify followed by Parse, WriteNote followed by     *)
(* ReadNote, and Validate, on bounded texts and frontmatter trees           *)

\* the pieces raw texts are made of: delimiter, entry and text lines, each with
\* and without its newline, and the empty line
Chunks ==
    { DelimNL, Delim,
      <<"a", ":", " ", "b", "\n">>, <<"a", ":", " ", "b">>,
      <<"x", "\n">>, <<"x">>, <<"\n">> }

MaxChunks == 3

RawTexts == {Concat(q) : q \in SeqsUpTo(Chunks, MaxChunks)}

\* the maps from some of the keys K to values in S
MapsOf(K, S) == {MapV(m) : m \in UNION {[D -> S] : D \in SUBSET K}}

\* mappings of plain string values, the empty one included
FlatMaps == MapsOf({KeyS(<<"a">>), KeyS(<<"c">>)}, {Str(<<"b">>)})

MaxSeqLen == 2

Leaves == {Str(<<"x">>), Fn}

NestedKeys == {KeyS(<<"a">>), KeyI(1)}

Level1 ==
    Leaves \cup {SeqV(q) : q \in SeqsUpTo(Leaves, MaxSeqLen)} \cup MapsOf(NestedKeys, Leaves)

Level2 == Level1 \cup {SeqV(<<v>>) : v \in Level1} \cup MapsOf(NestedKeys, Level1)

\* the frontmatter with value a under key "a" and c under key "c" (Nil: absent)
Tree(a, c) ==
    MapV([key \in (IF a = Nil THEN {} ELSE {KeyS(<<"a">>)}) \cup
                  (IF c = Nil THEN {} ELSE {KeyS(<<"c">>)}) |->
            IF key = KeyS(<<"a">>) THEN a ELSE c])

\* frontmatter trees: key "a" holds any value of up to two levels, key "c" a leaf
Trees == {Tree(a, c) : a \in Level2 \cup {Nil}, c \in Leaves \cup {Nil}}

NotePath == <<"a", ".", "m", "d">>

EmptyVault == Vault([q \in {} |-> DirNode])

CodecCalls ==
    {[op |-> "Parse", raw |-> r] : r \in RawTexts} \cup
    {[op |-> o, fm |-> f, body |-> b] :
        o \in {"Stringify", "WriteNote"}, f \in FlatMaps, b \in RawTexts} \cup
    {[op |-> "Validate", fm |-> f] : f \in Trees}

InitCodec ==
    /\ cfg = NewPathFilter(NilConfig)
    /\ fs = EmptyVault
    /\ pre = EmptyVault
    /\ call \in CodecCalls
    /\ ret = NoRet
    /\ log = <<>>
    /\ pc = "ready"
    /\ scan = NoScan

DoParse ==
    /\ pc = "ready"
    /\ call.op = "Parse"
    /\ ret' = Parse(call.raw)
    /\ pc' = "done"
    /\ UNCHANGED <<cfg, fs, pre, call, log, scan>>

DoStringify ==
    /\ pc = "ready"
    /\ call.op = "Stringify"
    /\ ret' = Stringify(call.fm, call.body)
    /\ pc' = "encoded"
    /\ UNCHANGED <<cfg, fs, pre, call, log, scan>>

\* Parse of the text Stringify produced
DoParseBack ==
    /\ pc = "encoded"
    /\ ~ret.panic
    /\ ret' = Parse(ret.text)
    /\ pc' = "done"
    /\ UNCHANGED <<cfg, fs, pre, call, log, scan>>

\* WriteNote in overwrite mode
DoWriteNote ==
    /\ pc = "ready"
    /\ call.op = "WriteNote"
    /\ Return(WriteNote(cfg, fs, [Path |-> NotePath, Content |-> call.body,
                                  Frontmatter |-> call.fm, Mode |-> "overwrite"]))
    /\ pc' = "written"
    /\ UNCHANGED <<cfg, pre, call, scan>>

\* what ReadNote hands back to the caller of the round trip
NoteOf(o) ==
    [ret |-> IF o.ret.status = "ok" THEN o.ret.note
             ELSE IF o.ret.status = "panic" THEN Panic
             ELSE o.ret,
     fs |-> o.fs, log |-> o.log]

\* ReadNote of the note WriteNote wrote
DoReadBack ==
    /\ pc = "written"
    /\ ret.status = "ok"
    /\ Return(NoteOf(ReadNote(cfg, fs, NotePath)))
    /\ pc' = "done"
    /\ UNCHANGED <<cfg, pre, call, scan>>

DoValidate ==
    /\ pc = "ready"
    /\ call.op = "Validate"
    /\ ret' = Validate(call.fm)
    /\ pc' = "done"
    /\ UNCHANGED <<cfg, fs, pre, call, log, scan>>

NextCodec ==
    \/ DoParse
    \/ DoStringify
    \/ DoParseBack
    \/ DoWriteNote
    \/ DoReadBack
    \/ DoValidate

SpecCodec == InitCodec /\ [][NextCodec]_vars

\* a call of Parse has returned or aborted
ParseDone == pc = "done" /\ call.op = "Parse"

\* a round trip has ended: Parse of what Stringify wrote, or ReadNote of what
\* WriteNote wrote (ret is the note that came back)
RoundTripDone == pc = "done" /\ call.op \in {"Stringify", "WriteNote"}

\* C4: Parse returns a result for every raw text, never aborting, and the
\* original of the result is the raw text
C4_ParseTotal == ParseDone => ~ret.panic /\ ret.OriginalContent = call.raw

\* text that opens a frontmatter block
Opens(raw) == HasPrefix(raw, DelimNL)

\* text that opens a block and has a closing delimiter line after it: one
\* followed by a newline, or one that ends the text
Closes(raw) ==
    /\ Opens(raw)
    /\ \/ Index(Slice(raw, 4, Len(raw)), NLDelimNL) # -1
       \/ HasSuffix(raw, NLDelim)

\* the text between the opening line and the closing line; the closing line
\* that ends the text needs a line break of its own
HasEnclosed(raw) ==
    Closes(raw) /\ (Index(Slice(raw, 4, Len(raw)), NLDelimNL) = -1 => Len(raw) >= 8)

Enclosed(raw) ==
    IF Index(Slice(raw, 4, Len(raw)), NLDelimNL) # -1
    THEN Slice(raw, 4, 4 + Index(Slice(raw, 4, Len(raw)), NLDelimNL))
    ELSE Slice(raw, 4, Len(raw) - 4)

\* the enclosed text fails to decode
DecodeFails(raw) == HasEnclosed(raw) /\ yamlUnmarshal(Enclosed(raw)).err

\* the enclosed text decodes to null, not to a mapping
DecodesNull(raw) ==
    /\ HasEnclosed(raw)
    /\ ~yamlUnmarshal(Enclosed(raw)).err
    /\ yamlUnmarshal(Enclosed(raw)).map = Nil

\* Parse fell back: empty frontmatter, the whole input as the body
FellBack == ~ret.panic /\ ret.Frontmatter = EmptyMap /\ ret.Content = call.raw

CameBack == ~ret.panic /\ ret.Frontmatter = call.fm /\ ret.Content = call.body

\* C5, as the spec states it: for every mapping F, the empty one included, and
\* every body B, bodies that begin with a "---" line included, Parse of
\* Stringify(F, B), and ReadNote after WriteNote(overwrite, F, B), give back
\* F and B.  Stated for the round trips that return, so that an abort of Parse
\* is not what refutes it.
C5_RoundTripAll == RoundTripDone /\ ~ret.panic => CameBack

\* C5, amended: the round trip gives back F and B for every non-empty F and
\* every B, and for the empty F whenever B does not open a frontmatter block
C5_RoundTrip ==
    RoundTripDone /\ (MapLen(call.fm) > 0 \/ ~Opens(call.body)) => CameBack

\* C5 witness: a non-empty mapping and a body that itself begins with a block
\* came back from the file
C5_Witness ==
    /\ RoundTripDone
    /\ call.op = "WriteNote"
    /\ MapLen(call.fm) = 2
    /\ call.body = DelimNL \o <<"a", ":", " ", "b", "\n">> \o DelimNL
    /\ CameBack

RECURSIVE ViolationsAt(_, _)
\* the positions of a tree that hold a callable or sit under a key that is not
\* a string, each with its dotted and bracketed path from the root
ViolationsAt(obj, path) ==
    CASE obj.k = "func" -> {[kind |-> "func", at |-> path]}
      [] obj.k = "seq" ->
            UNION {ViolationsAt(obj.items[i], path \o <<"[">> \o Itoa(i - 1) \o <<"]">>) :
                      i \in DOMAIN obj.items}
      [] obj.k = "map" ->
            UNION {(IF key.t # "str"
                    THEN {[kind |-> "key", at |-> CurrentPath(path, key)]}
                    ELSE {})
                   \cup ViolationsAt(obj.m[key], CurrentPath(path, key)) :
                      key \in DOMAIN obj.m}
      [] OTHER -> {}

\* C8: Validate answers valid exactly when the tree holds no callable and no
\* key that is not a string, at any depth; it records one error for each
\* violation, and each error names the path of the violating position
C8_ValidateNamesPaths ==
    pc = "done" /\ call.op = "Validate" =>
        /\ ret.IsValid = (ViolationsAt(call.fm, <<>>) = {})
        /\ Len(ret.Errors) = Cardinality(ViolationsAt(call.fm, <<>>))
        /\ {ret.Errors[i] : i \in DOMAIN ret.Errors} = ViolationsAt(call.fm, <<>>)

----------------------------------------------------------------------------
(* Spec: one call of the service, or of the delete tool, on a vault as it   *)
(* may be found on disk                                                     *)

ScriptPath == <<"a", ".", "j", "s">>

BrokenPath == <<"c", ".", "m", "d">>

FreshPath == <<"n", ".", "m", "d">>

SubDir == <<"v">>

SubNote == <<"v", "/", "b", ".", "m", "d">>

GitDir == <<".", "g", "i", "t">>

GitFile == <<".", "g", "i", "t", "/", "c">>

OutsidePath == <<".", ".", "/", "x", ".", "m", "d">>

InnerNote == <<"a", ".", "j", "s", "/", "n", ".", "m", "d">>

\* the paths callers pass
CallPaths ==
    {NotePath, BrokenPath, FreshPath, ScriptPath, SubDir, SubNote, GitDir, GitFile,
     OutsidePath, <<".">>}

\* a note without frontmatter
Body == <<"x", " ", "x">>

\* a note with frontmatter and a body
FmText == DelimNL \o <<"k", ":", " ", "v", "\n">> \o DelimNL \o <<"x">>

\* a note that ends with its closing delimiter, without a line break after it
Unclosed == DelimNL \o <<"k", ":", " ", "v">> \o NLDelim

\* the absolute path of a path relative to the vault
Under(rel) == VaultPath \o <<"/">> \o rel

At(abs, node) == [at |-> abs, node |-> node]

VaultOf(S) == Vault([q \in {e.at : e \in S} |-> (CHOOSE e \in S : e.at = q).node])

\* notes, a script, a folder, a .git folder, and a file beside the vault
HomeVault ==
    VaultOf({At(Under(NotePath), FileNode(Body)),
             At(Under(BrokenPath), FileNode(Unclosed)),
             At(Under(ScriptPath), FileNode(<<"x">>)),
             At(Under(SubDir), DirNode),
             At(Under(SubNote), FileNode(FmText)),
             At(Under(GitDir), DirNode),
             At(Under(GitFile), FileNode(<<"x">>)),
             At(<<"/", "x", ".", "m", "d">>, FileNode(<<"x">>))})

\* folders where the other vault has files, and a file where it has a folder
OddVault ==
    VaultOf({At(Under(NotePath), DirNode),
             At(Under(ScriptPath), DirNode),
             At(Under(InnerNote), FileNode(<<"x">>)),
             At(Under(SubDir), FileNode(<<"x">>))})

Vaults == {EmptyVault, HomeVault, OddVault}

\* a frontmatter with one key
Front(v) == MapV([key \in {KeyS(<<"k">>)} |-> v])

\* no frontmatter, an empty one, a valid one, one with a callable, one with a
\* key that is not a string
Frontmatters ==
    {Nil, EmptyMap, Front(Str(<<"w">>)), Front(Fn),
     Front(MapV([key \in {KeyI(1)} |-> Str(<<"w">>)]))}

Contents == {<<"y">>, FmText}

Modes == {"", "overwrite", "append", "prepend"}

\* a string of n characters that occurs in no note
LongOld(n) == [i \in 1..n |-> "z"]

OldStrings ==
    {<<>>, <<" ">>, <<"x">>, <<"k">>, LongOld(PreviewLen), LongOld(PreviewLen + 1)}

NewStrings == {<<>>, <<"x">>, <<"y">>}

Confirms == {Yes, <<"y">>, <<>>}

Init ==
    /\ cfg \in Configs
    /\ fs \in Vaults
    /\ pre = fs
    /\ call = [op |-> "none"]
    /\ ret = NoRet
    /\ log = <<>>
    /\ pc = "idle"
    /\ scan = NoScan

\* a call begins: the vault as it is is remembered, and the caller waits
Begin(c) ==
    /\ pc = "idle"
    /\ call' = c
    /\ pre' = fs
    /\ pc' = "returned"
    /\ UNCHANGED <<cfg, scan>>

ReadNoteCall ==
    \E p \in CallPaths :
        /\ Begin([op |-> "ReadNote", Path |-> p])
        /\ Return(ReadNote(cfg, fs, p))

WriteNoteCall ==
    \E p \in CallPaths, c \in Contents, fm \in Frontmatters, m \in Modes :
        /\ Begin([op |-> "WriteNote", Path |-> p, Content |-> c,
                  Frontmatter |-> fm, Mode |-> m])
        /\ Return(WriteNote(cfg, fs, [Path |-> p, Content |-> c,
                                      Frontmatter |-> fm, Mode |-> m]))

PatchNoteCall ==
    \E p \in CallPaths, old \in OldStrings, new \in NewStrings, all \in BOOLEAN :
        /\ Begin([op |-> "PatchNote", Path |-> p, OldString |-> old,
                  NewString |-> new, ReplaceAll |-> all])
        /\ Return(PatchNote(cfg, fs, [Path |-> p, OldString |-> old,
                                      NewString |-> new, ReplaceAll |-> all]))

ListDirectoryCall ==
    \E p \in CallPaths \cup {<<>>} :
        /\ Begin([op |-> "ListDirectory", Path |-> p])
        /\ Return(ListDirectory(cfg, fs, p))

DeleteNoteCall ==
    \E p \in CallPaths, c \in CallPaths :
        /\ c \in {p, NotePath}
        /\ Begin([op |-> "DeleteNote", Path |-> p, ConfirmPath |-> c])
        /\ Return(DeleteNote(cfg, fs, [Path |-> p, ConfirmPath |-> c]))

MoveNoteCall ==
    \E old \in CallPaths, new \in CallPaths, over \in BOOLEAN :
        /\ Begin([op |-> "MoveNote", OldPath |-> old, NewPath |-> new,
                  Overwrite |-> over])
        /\ Return(MoveNote(cfg, fs, [OldPath |-> old, NewPath |-> new,
                                     Overwrite |-> over]))

\* the delete tool
handleDeleteCall ==
    \E p \in CallPaths \cup {<<" ">> \o NotePath \o <<" ">>}, c \in Confirms :
        /\ Begin([op |-> "handleDelete", Path |-> p, Confirm |-> c])
        /\ Return(handleDelete(cfg, fs, [Path |-> p, Confirm |-> c]))

Next ==
    \/ ReadNoteCall
    \/ WriteNoteCall
    \/ PatchNoteCall
    \/ ListDirectoryCall
    \/ DeleteNoteCall
    \/ MoveNoteCall
    \/ handleDeleteCall

Spec == Init /\ [][Next]_vars

\* a call of the named operation has returned
Returned(op) == pc = "returned" /\ call.op = op

\* the paths the caller supplied
CallerPaths ==
    IF call.op = "MoveNote" THEN {call.OldPath, call.NewPath}
    ELSE IF call.op = "ListDirectory" THEN {ListPath(call.Path)}
    ELSE {call.Path}

\* before the i-th step of the call, ResolvePath succeeded for p and IsAllowed
\* returned true for p
CheckedBefore(i, p) ==
    /\ \E j \in 1..(i - 1) : log[j] = Ev("Resolve", p, TRUE)
    /\ \E j \in 1..(i - 1) : log[j] = Ev("IsAllowed", p, TRUE)

\* C2: in every call of ReadNote, WriteNote, PatchNote, DeleteNote, MoveNote
\* and ListDirectory, nothing on disk is read, listed, created, written or
\* removed before ResolvePath has succeeded and IsAllowed has returned true
\* for each path the caller supplied
C2_ChecksBeforeAccess ==
    pc = "returned" /\ call.op \in {"ReadNote", "WriteNote", "PatchNote",
                                    "DeleteNote", "MoveNote", "ListDirectory"} =>
        \A i \in DOMAIN log :
            log[i].ev \in DiskEvents => \A p \in CallerPaths : CheckedBefore(i, p)

\* the vault without the node at p
Without(f, p) == [q \in DOMAIN f \ {p} |-> f[q]]

\* the call removed exactly the regular file the path names, and nothing else
RemovedFile(path) ==
    /\ ResolvePath(path).ok
    /\ IsAllowed(cfg, path)
    /\ ResolvePath(path).abs \in DOMAIN pre
    /\ pre[ResolvePath(path).abs].kind = "file"
    /\ fs = Without(pre, ResolvePath(path).abs)

\* C3: DeleteNote removes something only if path equals confirmPath, the path
\* resolves and is admitted, and what it names is a regular file, which is
\* what it removes; when path differs from confirmPath it answers
\* success=false and leaves the vault as it was.  The delete tool removes
\* nothing unless confirm is exactly "yes".
C3_DeleteGuarded ==
    /\ Returned("DeleteNote") =>
        /\ call.Path # call.ConfirmPath => ~ret.Success /\ fs = pre /\ log = <<>>
        /\ fs # pre => call.Path = call.ConfirmPath /\ RemovedFile(call.Path)
        /\ ret.Success => fs # pre
    /\ Returned("handleDelete") =>
        /\ call.Confirm # Yes => fs = pre /\ log = <<>>
        /\ fs # pre => RemovedFile(TrimSpace(call.Path))

\* C3 witness: DeleteNote, path and confirmPath the same, removed a note
C3_Witness ==
    /\ Returned("DeleteNote")
    /\ call.Path = SubNote
    /\ call.ConfirmPath = SubNote
    /\ ret.Success
    /\ Under(SubNote) \in DOMAIN pre
    /\ Under(SubNote) \notin DOMAIN fs

RECURSIVE WellFormed(_)
\* a tree without a callable and without a key that is not a string
WellFormed(obj) ==
    CASE obj.k = "func" -> FALSE
      [] obj.k = "seq" -> \A i \in DOMAIN obj.items : WellFormed(obj.items[i])
      [] obj.k = "map" ->
            \A key \in DOMAIN obj.m : key.t = "str" /\ WellFormed(obj.m[key])
      [] OTHER -> TRUE

\* a call of WriteNote with a frontmatter that fails validation has returned
InvalidWrite ==
    /\ Returned("WriteNote")
    /\ call.Frontmatter # Nil
    /\ ~WellFormed(call.Frontmatter)

\* C7: WriteNote with a frontmatter that fails validation returns an error
\* before anything is encoded, any directory made or any file written, in
\* every mode, and leaves the vault as it was; the error is the
\* invalid-frontmatter error whenever the path resolves and is admitted
C7_InvalidFrontmatterRefused ==
    InvalidWrite =>
        /\ ret.status = "error"
        /\ ResolvePath(call.Path).ok /\ IsAllowed(cfg, call.Path)
              => ret.err = "InvalidFrontmatter"
        /\ \A i \in DOMAIN log : log[i].ev \notin {"Encode", "MkdirAll", "WriteFile"}
        /\ fs = pre

\* C7 witness: an append to an existing note with a callable in the
\* frontmatter was refused
C7_Witness ==
    /\ InvalidWrite
    /\ call.Mode = "append"
    /\ call.Path = NotePath
    /\ Under(NotePath) \in DOMAIN pre
    /\ ret = Err("InvalidFrontmatter")

\* PatchNote answered that an argument is invalid
RejectedArgument ==
    /\ ret.status = "ok"
    /\ ~ret.Success
    /\ ret.Message.kind \in {"OldStringEmpty", "NewStringEmpty", "MustDiffer"}

\* a call of PatchNote on a path the filter admits has returned or aborted
AdmittedPatch == Returned("PatchNote") /\ IsAllowed(cfg, call.Path)

\* the note PatchNote was called on is in the vault, as a regular file
NoteExists ==
    /\ ResolvePath(call.Path).ok
    /\ ResolvePath(call.Path).abs \in DOMAIN pre
    /\ pre[ResolvePath(call.Path).abs].kind = "file"

\* the raw text of that note
RawText == pre[ResolvePath(call.Path).abs].data

Blank(s) == \A i \in DOMAIN s : IsSpace(s[i])

\* PatchNote's answer is the one the occurrences of oldText call for: not
\* found for none, ambiguous for several without replaceAll, else replaced
DecidedByCount ==
    /\ ret.status = "ok"
    /\ ret.Message.kind =
          IF Occurrences(RawText, call.OldString) = {} THEN "NotFound"
          ELSE IF ~call.ReplaceAll /\ ret.MatchCount > 1 THEN "Ambiguous"
          ELSE "Replaced"
    /\ ret.MatchCount = 0 <=> Occurrences(RawText, call.OldString) = {}
    /\ ret.MatchCount <= Cardinality(Occurrences(RawText, call.OldString))

C10_NotFoundReported ==
    /\ AdmittedPatch
    /\ NoteExists
    /\ ~Blank(call.OldString)
    /\ call.NewString # <<>>
    /\ call.OldString # call.NewString
    /\ Occurrences(RawText, call.OldString) = {}
    => /\ ret.status = "ok"
       /\ ~ret.Success
       /\ ret.MatchCount = 0
       /\ ret.Message.kind = "NotFound"
       /\ ret.Message.preview =
             IF Len(call.OldString) > PreviewLen
             THEN SubSeq(call.OldString, 1, PreviewLen) \o Ellipsis
             ELSE call.OldString
       /\ fs = pre

----------------------------------------------------------------------------
(* SpecPatch: one call of PatchNote on a vault that holds one note, for     *)
(* bounded note texts, old strings and new strings                          *)

PatchChars == {"a", "b"}

MaxTextLen == 4

MaxOldLen == 2

\* short texts, a note with frontmatter, and a note that ends with its closing
\* delimiter
PatchTexts == SeqsUpTo(PatchChars, MaxTextLen) \cup {FmText, Unclosed}

PatchStrings == SeqsUpTo(PatchChars, MaxOldLen) \cup {<<"-">>, <<"k">>}

\* a vault whose only note holds the text
PatchVault(text) == VaultOf({At(Under(NotePath), FileNode(text))})

PatchCalls ==
    [op : {"PatchNote"}, Path : {NotePath}, OldString : PatchStrings,
     NewString : PatchStrings, ReplaceAll : BOOLEAN]

InitPatch ==
    /\ cfg = NewPathFilter(NilConfig)
    /\ fs \in {PatchVault(t) : t \in PatchTexts}
    /\ pre = fs
    /\ call \in PatchCalls
    /\ ret = NoRet
    /\ log = <<>>
    /\ pc = "ready"
    /\ scan = NoScan

DoPatchNote ==
    /\ pc = "ready"
    /\ Return(PatchNote(cfg, fs, call))
    /\ pc' = "done"
    /\ UNCHANGED <<cfg, pre, call, scan>>

NextPatch == DoPatchNote

SpecPatch == InitPatch /\ [][NextPatch]_vars

\* the note's text before the call and after it
TextBefore == pre[Under(NotePath)].data

TextAfter == fs[Under(NotePath)].data

RECURSIVE Scan(_, _, _)
\* the occurrences of sub a scan from the left picks, each starting where the
\* one before it has ended or later (0-based positions)
Scan(s, sub, from) ==
    IF {i \in Occurrences(s, sub) : i >= from} = {} THEN {}
    ELSE {First({i \in Occurrences(s, sub) : i >= from})}
         \cup Scan(s, sub, First({i \in Occurrences(s, sub) : i >= from}) + Len(sub))

\* the non-overlapping occurrences of sub in s
Picked(s, sub) == Scan(s, sub, 0)

RECURSIVE Rewrite(_, _, _, _, _)
\* s from position i on, with new in place of old at the positions in at and
\* every other character kept
Rewrite(s, old, new, at, i) ==
    IF i >= Len(s) THEN <<>>
    ELSE IF i \in at THEN new \o Rewrite(s, old, new, at, i + Len(old))
    ELSE <<s[i + 1]>> \o Rewrite(s, old, new, at, i + 1)

\* a call of PatchNote whose arguments PatchNote accepts has returned or aborted
PatchDone ==
    /\ pc = "done"
    /\ ~Blank(call.OldString)
    /\ call.NewString # <<>>
    /\ call.OldString # call.NewString

\* PatchNote reported success
PatchSucceeded == pc = "done" /\ ret.status = "ok" /\ ret.Success

\* C11: PatchNote with replaceAll=false on a note that holds n > 1
\* non-overlapping occurrences of oldText answers success=false with
\* occurrence count n and a message stating n, and leaves the note as it was
C11_AmbiguousReported ==
    PatchDone /\ ~call.ReplaceAll
              /\ Cardinality(Picked(TextBefore, call.OldString)) > 1
    => /\ ret.status = "ok"
       /\ ~ret.Success
       /\ ret.MatchCount = Cardinality(Picked(TextBefore, call.OldString))
       /\ ret.Message = [kind |-> "Ambiguous",
                         n |-> Cardinality(Picked(TextBefore, call.OldString))]
       /\ fs = pre

\* C12, as the spec states it: after a PatchNote with replaceAll=true that
\* reports success, the note holds no occurrence of oldText, whatever newText
C12_NoneLeft ==
    PatchSucceeded /\ call.ReplaceAll => Occurrences(TextAfter, call.OldString) = {}

\* newText and oldText have no character in common
Disjoint(a, b) == \A i \in DOMAIN a : \A j \in DOMAIN b : a[i] # b[j]

\* C12, amended: after a PatchNote with replaceAll=true that reports success,
\* the note holds no occurrence of oldText whenever newText and oldText have no
\* character in common
C12_NoneLeftDisjoint ==
    PatchSucceeded /\ call.ReplaceAll /\ Disjoint(call.OldString, call.NewString)
    => Occurrences(TextAfter, call.OldString) = {}

\* C12 witness: every "a" of "abab" was replaced by "k"
C12_Witness ==
    /\ PatchSucceeded
    /\ call.ReplaceAll
    /\ TextBefore = <<"a", "b", "a", "b">>
    /\ call.OldString = <<"a">>
    /\ call.NewString = <<"k">>
    /\ TextAfter = <<"k", "b", "k", "b">>

\* C13: a successful PatchNote writes the note's whole raw text with the first
\* occurrence of oldText replaced (replaceAll=false) or with every
\* non-overlapping occurrence, scanned from the left, replaced
\* (replaceAll=true), every other character kept; it reports the number of
\* occurrences found before the replacement; nothing else in the vault changes
C13_ReplacesAsScanned ==
    PatchSucceeded =>
        /\ TextAfter =
              Rewrite(TextBefore, call.OldString, call.NewString,
                      IF call.ReplaceAll THEN Picked(TextBefore, call.OldString)
                      ELSE {First(Occurrences(TextBefore, call.OldString))}, 0)
        /\ ret.MatchCount = Cardinality(Picked(TextBefore, call.OldString))
        /\ ret.MatchCount >= 1
        /\ fs = [pre EXCEPT ![Under(NotePath)].data = TextAfter]

\* C13 witness: the key of the frontmatter of a note was replaced, the one
\* occurrence there is
C13_Witness ==
    /\ PatchSucceeded
    /\ ~call.ReplaceAll
    /\ TextBefore = FmText
    /\ call.OldString = <<"k">>
    /\ call.NewString = <<"a">>
    /\ TextAfter = DelimNL \o <<"a", ":", " ", "v", "\n">> \o DelimNL \o <<"x">>
    /\ ret.MatchCount = 1

----------------------------------------------------------------------------
(* MoveNote and the append and prepend modes of WriteNote, under Spec       *)

\* where the paths of a MoveNote call resolve to
OldAbs == ResolvePath(call.OldPath).abs

NewAbs == ResolvePath(call.NewPath).abs

\* the target of the MoveNote call was in the vault before the call
TargetExisted == ResolvePath(call.NewPath).ok /\ NewAbs \in DOMAIN pre

\* C14: MoveNote with overwrite=false whose target already exists answers
\* success=false, and the source and the target, as everything else in the
\* vault, are as they were
C14_ExistingTargetKept ==
    Returned("MoveNote") /\ ~call.Overwrite /\ TargetExisted
    => ~ret.Success /\ fs = pre

\* C14 witness: a note was not moved onto another note
C14_Witness ==
    /\ Returned("MoveNote")
    /\ ~call.Overwrite
    /\ call.OldPath = NotePath
    /\ call.NewPath = SubNote
    /\ pre = HomeVault
    /\ ret = Result(FALSE, "TargetExists")
    /\ fs = pre

\* C15: after a MoveNote that reports success, whatever the two paths and
\* overwrite, there is a note at newPath that holds what the note at oldPath
\* held before the call
C15_MovedContentKept ==
    Returned("MoveNote") /\ ret.Success
    => /\ ResolvePath(call.NewPath).ok
       /\ ResolvePath(call.OldPath).ok
       /\ OldAbs \in DOMAIN pre
       /\ NewAbs \in DOMAIN fs
       /\ fs[NewAbs] = pre[OldAbs]

\* the frontmatter a shallow merge gives: every key of either mapping, the
\* value of the supplied mapping where it has the key
ShallowMerge(existing, supplied) ==
    IF supplied = Nil THEN existing
    ELSE MapV([key \in DOMAIN existing.m \cup DOMAIN supplied.m |->
                  IF key \in DOMAIN supplied.m THEN supplied.m[key]
                  ELSE existing.m[key]])

\* a call of WriteNote in append or prepend mode, on an admitted note that
\* exists, with a frontmatter that passes validation, has returned or aborted
ExtendedNote ==
    /\ Returned("WriteNote")
    /\ call.Mode \in {"append", "prepend"}
    /\ IsAllowed(cfg, call.Path)
    /\ NoteExists
    /\ call.Frontmatter # Nil => WellFormed(call.Frontmatter)

\* the note as it was before the call, and as it is after it
NoteBefore == Parse(RawText)

NoteAfter == Parse(fs[ResolvePath(call.Path).abs].data)

\* C16: WriteNote in append (prepend) mode on an existing note leaves a note
\* whose body is the existing body followed by the new text (the new text
\* followed by the existing body), nothing put between them, and whose
\* frontmatter is the existing one with every top-level key of the supplied
\* frontmatter added or replaced
C16_ExtendsExisting ==
    ExtendedNote =>
        /\ ret.status = "ok"
        /\ ~NoteBefore.panic
        /\ ~NoteAfter.panic
        /\ NoteAfter.Content =
              IF call.Mode = "append" THEN NoteBefore.Content \o call.Content
              ELSE call.Content \o NoteBefore.Content
        /\ NoteAfter.Frontmatter = ShallowMerge(NoteBefore.Frontmatter, call.Frontmatter)

----------------------------------------------------------------------------
(* search.Service: SearchAdvanced *)

Max(a, b) == IF a >= b THEN a ELSE b

\* the width of an int of the model, in bits; the arithmetic wraps around at
\* this width as Go's does at 64
IntBits == 8

MaxInt == 2^(IntBits - 1) - 1

\* a + b of two ints
AddInt(a, b) == ((a + b + 2^(IntBits - 1)) % 2^IntBits) - 2^(IntBits - 1)

\* the context radius SearchAdvanced uses when the caller's is not positive
DefaultContextLines == 2

\* the page size SearchAdvanced uses when the caller's is not positive
DefaultLimit == 15

MdSuffix == <<".", "m", "d">>

RECURSIVE findMarkdownFiles(_, _)
RECURSIVE FilesOfEntries(_, _, _)
\* the loop of findMarkdownFiles over the entries of the names, in order: the
\* files of a directory, or a regular file named *.md
FilesOfEntries(f, dirPath, names) ==
    IF names = <<>> THEN <<>>
    ELSE (IF f[Join(dirPath, names[1])].kind = "dir"
          THEN findMarkdownFiles(f, Join(dirPath, names[1]))
          ELSE IF HasSuffix(names[1], MdSuffix) THEN <<Join(dirPath, names[1])>>
          ELSE <<>>) \o
         FilesOfEntries(f, dirPath, Tail(names))

\* Service.findMarkdownFiles: os.ReadDir hands out the entries sorted by name;
\* a directory that cannot be read yields no file
findMarkdownFiles(f, dirPath) ==
    IF osReadDir(f, dirPath).err # "None" THEN <<>>
    ELSE FilesOfEntries(f, dirPath,
                        SortStrings({e.name : e \in osReadDir(f, dirPath).entries}))

\* file.path[len(s.vaultPath)+1:] with the separators normalised
RelativePath(path) == NormalizeSeparators(Slice(path, Len(VaultPath) + 1, Len(path)))

\* the characters regexp.QuoteMeta escapes
MetaChars == {"\\", ".", "+", "*", "?", "(", ")", "|", "[", "]", "{", "}", "^", "$"}

\* a compiled pattern: the text it looks for, whether "(?i)" folds the case of
\* letters, and whether it is tied to the start or to the end of the text
Compiled(lit, fold, bol, eol) ==
    [ok |-> TRUE, lit |-> lit, fold |-> fold, bol |-> bol, eol |-> eol]

\* the error of regexp.Compile: what is wrong, and the expression it was given
CompileError(reason, expr) == [ok |-> FALSE, reason |-> reason, expr |-> expr]

\* "(?i)" in front of the expression of a search that folds case
FoldFlag(fold) == IF fold THEN <<"(", "?", "i", ")">> ELSE <<>>

\* the query without an anchor "^" in front and an anchor "$" at its end
Unanchored(query) ==
    Slice(query, IF HasPrefix(query, <<"^">>) THEN 1 ELSE 0,
          IF HasSuffix(query, <<"$">>) /\ Len(query) > 1 THEN Len(query) - 1
          ELSE IF query = <<"$">> THEN 0 ELSE Len(query))

\* regexp.Compile of a query in regex mode, for the expressions of the model:
\* characters that stand for themselves, with "^" in front, "$" at the end or
\* both, and expressions with a "(" that nothing closes, which do not compile
CompileRegex(query, fold) ==
    CASE (\E i \in DOMAIN query : query[i] = "(") /\
         ~(\E i \in DOMAIN query : query[i] = ")") ->
             CompileError("missing closing )", FoldFlag(fold) \o query)
      [] Range(Unanchored(query)) \cap MetaChars = {} ->
             Compiled(Unanchored(query), fold, HasPrefix(query, <<"^">>),
                      HasSuffix(query, <<"$">>))

\* the search pattern of SearchAdvanced: the query as an expression in regex
\* mode, else with every character made to stand for itself by QuoteMeta
Compile(params) ==
    IF params.UseRegex THEN CompileRegex(params.Query, ~params.CaseSensitive)
    ELSE Compiled(params.Query, ~params.CaseSensitive, FALSE, FALSE)

\* the pattern matches s from index i on
MatchAt(pattern, s, i) ==
    /\ i + Len(pattern.lit) <= Len(s)
    /\ IF pattern.fold
       THEN ToLower(Slice(s, i, i + Len(pattern.lit))) = ToLower(pattern.lit)
       ELSE Slice(s, i, i + Len(pattern.lit)) = pattern.lit
    /\ pattern.bol => i = 0
    /\ pattern.eol => i + Len(pattern.lit) = Len(s)

\* searchPattern.MatchString
MatchString(pattern, s) == \E i \in 0..Len(s) : MatchAt(pattern, s, i)

\* [a-zA-Z0-9_/-]
IsTagChar(c) == IsAlnum(c) \/ c \in {"_", "/", "-"}

RECURSIVE TagRun(_)
\* the length of the longest run of tag characters s opens with
TagRun(s) == IF s = <<>> \/ ~IsTagChar(s[1]) THEN 0 ELSE 1 + TagRun(Tail(s))

RECURSIVE FindAllTags(_)
\* tagPattern.FindAllString(line, -1): the matches of #[a-zA-Z0-9_/-]+ from
\* the left, each as long as it can be, none overlapping another
FindAllTags(line) ==
    IF line = <<>> THEN <<>>
    ELSE IF line[1] = "#" /\ TagRun(Tail(line)) > 0
    THEN <<Slice(line, 0, 1 + TagRun(Tail(line)))>> \o
         FindAllTags(Slice(line, 1 + TagRun(Tail(line)), Len(line)))
    ELSE FindAllTags(Tail(line))

\* startLine of the context of a match on the line of index lineNum
StartLine(lineNum, contextLines) == Max(lineNum - contextLines, 0)

\* endLine without the "+1": the window ends one line early
EndLineShort(lines, lineNum, contextLines) ==
    Min(AddInt(lineNum, contextLines), Len(lines))

\* endLine of the context
EndLine(lines, lineNum, contextLines) ==
    Min(AddInt(AddInt(lineNum, contextLines), 1), Len(lines))

\* the match SearchAdvanced appends for the line of index lineNum
SearchMatchAdvanced(lines, lineNum, pattern, contextLines) ==
    [Line |-> lineNum + 1,
     Context |-> JoinWith(Slice(lines, StartLine(lineNum, contextLines),
                                EndLine(lines, lineNum, contextLines)), <<"\n">>),
     IsTag |-> \E t \in Range(FindAllTags(lines[lineNum + 1])) :
                  MatchString(pattern, t)]

\* the indexes of the lines the pattern matches
MatchingLines(lines, pattern) ==
    {n \in 0..(Len(lines) - 1) : MatchString(pattern, lines[n + 1])}

\* lines[startLine:endLine] is out of range for some matching line
ContextPanics(lines, pattern, contextLines) ==
    \E n \in MatchingLines(lines, pattern) :
        ~SliceOK(lines, StartLine(n, contextLines), EndLine(lines, n, contextLines))

RECURSIVE MatchesPerOccurrence(_, _, _, _)
\* the matches of the lines from index lineNum on with one match for every
\* place of a line where the pattern matches
MatchesPerOccurrence(lines, lineNum, pattern, contextLines) ==
    IF lineNum >= Len(lines) THEN <<>>
    ELSE [i \in 1..Cardinality({k \in 0..Len(lines[lineNum + 1]) :
                                    MatchAt(pattern, lines[lineNum + 1], k)}) |->
             SearchMatchAdvanced(lines, lineNum, pattern, contextLines)] \o
         MatchesPerOccurrence(lines, lineNum + 1, pattern, contextLines)

RECURSIVE MatchesFrom(_, _, _, _)
\* the matches of the lines from index lineNum on, in line order
MatchesFrom(lines, lineNum, pattern, contextLines) ==
    IF lineNum >= Len(lines) THEN <<>>
    ELSE (IF MatchString(pattern, lines[lineNum + 1])
          THEN <<SearchMatchAdvanced(lines, lineNum, pattern, contextLines)>>
          ELSE <<>>) \o
         MatchesFrom(lines, lineNum + 1, pattern, contextLines)

\* what a worker does with one file: it panics, or sends some messages
Sends(msgs) == [panic |-> FALSE, msgs |-> msgs]

\* the body of a SearchAdvanced worker's loop from strings.Split on
SearchLines(file, lines, p) ==
    IF ContextPanics(lines, p.Pattern, p.ContextLines) THEN Panic
    ELSE IF MatchingLines(lines, p.Pattern) = {} THEN Sends(<<>>)
    ELSE Sends(<<[idx |-> file.idx,
                  result |-> [Path |-> RelativePath(file.path),
                              Matches |-> MatchesFrom(lines, 0, p.Pattern,
                                                      p.ContextLines)]]>>)

\* the body of a SearchAdvanced worker's loop from os.ReadFile on
SearchRead(file, c, p) ==
    IF c.err # "None" THEN Sends(<<>>) ELSE SearchLines(file, Split(c.data, "\n"), p)

\* the body of a SearchAdvanced worker's loop for one file
SearchFile(pf, f, file, p) ==
    IF ~IsAllowed(pf, RelativePath(file.path)) THEN Sends(<<>>)
    ELSE SearchRead(file, osReadFile(f, file.path), p)

\* what SearchAdvanced works with: the compiled pattern, and the parameters
\* with the defaults put in
Defaulted(params) ==
    [Pattern |-> Compile(params),
     ContextLines |-> IF params.ContextLines <= 0 THEN DefaultContextLines
                      ELSE params.ContextLines,
     Limit |-> IF params.Limit <= 0 THEN DefaultLimit ELSE params.Limit,
     Offset |-> Max(params.Offset, 0)]

\* the query is empty; a blank one is let through
EmptyQueryUntrimmed(query) == query = <<>>

\* the query is empty or blank
EmptyQuery(query) == query = <<>> \/ TrimSpace(query) = <<>>

\* what SearchAdvanced returns without an error
Found(results, totalFiles) ==
    [status |-> "ok", results |-> results, totalFiles |-> totalFiles]

\* SearchAdvanced from totalFiles on: the page of allResults
Paginate(allResults, limit, offset) ==
    IF offset >= Len(allResults) THEN Found(<<>>, Len(allResults))
    ELSE IF ~SliceOK(allResults, offset, Min(AddInt(offset, limit), Len(allResults)))
    THEN [status |-> "panic"]
    ELSE Found(Slice(allResults, offset, Min(AddInt(offset, limit), Len(allResults))),
               Len(allResults))

\* the files of the work queue: each path with its index
Indexed(paths) == [i \in DOMAIN paths |-> [idx |-> i - 1, path |-> paths[i]]]

RECURSIVE SortByIdx(_)
\* sort.Slice by idx, of messages with distinct indexes
SortByIdx(msgs) ==
    IF msgs = {} THEN <<>>
    ELSE <<CHOOSE m \in msgs : \A o \in msgs : m.idx <= o.idx>> \o
         SortByIdx(msgs \ {CHOOSE m \in msgs : \A o \in msgs : m.idx <= o.idx})

\* allResults without the sort: the results in the order they were received
AllResultsAsReceived(collected) == [i \in DOMAIN collected |-> collected[i].result]

\* allResults: the results of the collected messages in the order of idx
AllResults(collected) ==
    [i \in DOMAIN SortByIdx(Range(collected)) |-> SortByIdx(Range(collected))[i].result]

\* SearchAdvanced once every worker has finished and the results are collected
SearchCollected(collected, p) == Paginate(AllResults(collected), p.Limit, p.Offset)

----------------------------------------------------------------------------
(* The related and tags tools: cmd/obsidian-mcp/handlers.go *)

TagsKey == KeyS(<<"t", "a", "g", "s">>)

\* the tags extractTags takes from the frontmatter: a string, or the strings
\* of a list
FrontmatterTags(frontmatter) ==
    IF frontmatter.k # "map" \/ TagsKey \notin DOMAIN frontmatter.m THEN {}
    ELSE IF frontmatter.m[TagsKey].k = "str" THEN {ToLower(frontmatter.m[TagsKey].v)}
    ELSE IF frontmatter.m[TagsKey].k = "seq"
    THEN {ToLower(frontmatter.m[TagsKey].items[i].v) :
             i \in {j \in DOMAIN frontmatter.m[TagsKey].items :
                       frontmatter.m[TagsKey].items[j].k = "str"}}
    ELSE {}

\* \s
IsBlank(c) == c \in {" ", "\t", "\n", "\r"}

RECURSIVE InlineTagsFrom(_, _)
\* inlineTagPattern.FindAllStringSubmatch from index i on: the names of the
\* matches of (?:^|\s)#([a-zA-Z0-9_/-]+), from the left, none overlapping
InlineTagsFrom(content, i) ==
    IF i >= Len(content) THEN {}
    ELSE IF i = 0 /\ content[1] = "#" /\ TagRun(Slice(content, 1, Len(content))) > 0
    THEN {Slice(content, 1, 1 + TagRun(Slice(content, 1, Len(content))))} \cup
         InlineTagsFrom(content, 1 + TagRun(Slice(content, 1, Len(content))))
    ELSE IF /\ i + 1 < Len(content)
            /\ IsBlank(content[i + 1])
            /\ content[i + 2] = "#"
            /\ TagRun(Slice(content, i + 2, Len(content))) > 0
    THEN {Slice(content, i + 2, i + 2 + TagRun(Slice(content, i + 2, Len(content))))} \cup
         InlineTagsFrom(content, i + 2 + TagRun(Slice(content, i + 2, Len(content))))
    ELSE InlineTagsFrom(content, i + 1)

\* extractTags: the lower-cased tags of the frontmatter and of the text, sorted
extractTags(frontmatter, content) ==
    SortStrings(FrontmatterTags(frontmatter) \cup
                {ToLower(t) : t \in InlineTagsFrom(content, 0)})

RECURSIVE RunOutside(_, _)
\* the length of the longest run of characters outside stop that s opens with
RunOutside(s, stop) ==
    IF s = <<>> \/ s[1] \in stop THEN 0 ELSE 1 + RunOutside(Tail(s), stop)

\* the index after the optional (?:#[^\]|]*) that may follow a target ending
\* at index e
AfterHeading(content, e) ==
    IF e < Len(content) /\ content[e + 1] = "#"
    THEN e + 1 + RunOutside(Slice(content, e + 1, Len(content)), {"]", "|"})
    ELSE e

\* the index after the optional (?:\|[^\]]+) that may start at index e, or e
AfterAlias(content, e) ==
    IF /\ e < Len(content)
       /\ content[e + 1] = "|"
       /\ RunOutside(Slice(content, e + 1, Len(content)), {"]"}) > 0
    THEN e + 1 + RunOutside(Slice(content, e + 1, Len(content)), {"]"})
    ELSE e

\* the closing "]]" stands at index e
ClosesAt(content, e) ==
    e + 2 <= Len(content) /\ content[e + 1] = "]" /\ content[e + 2] = "]"

\* the index after the match of linkPattern that starts at index i with a
\* target of n characters, or -1 if there is none
LinkEnd(content, i, n) ==
    IF n = 0 THEN -1
    ELSE IF ClosesAt(content, AfterAlias(content, AfterHeading(content, i + 2 + n)))
    THEN AfterAlias(content, AfterHeading(content, i + 2 + n)) + 2
    ELSE -1

\* the length of the run of target characters after the "[[" at index i
TargetRun(content, i) ==
    IF i + 2 <= Len(content) /\ content[i + 1] = "[" /\ content[i + 2] = "["
    THEN RunOutside(Slice(content, i + 2, Len(content)), {"]", "|", "#"})
    ELSE 0

RECURSIVE LinksFrom(_, _)
\* linkPattern.FindAllStringSubmatch from index i on: the targets of the matches
\* of \[\[([^\]|#]+)(?:#[^\]|]*)?(?:\|[^\]]+)?\]\], from the left
LinksFrom(content, i) ==
    IF i >= Len(content) THEN {}
    ELSE IF LinkEnd(content, i, TargetRun(content, i)) # -1
    THEN {Slice(content, i + 2, i + 2 + TargetRun(content, i))} \cup
         LinksFrom(content, LinkEnd(content, i, TargetRun(content, i)))
    ELSE LinksFrom(content, i + 1)

\* extractLinks: the trimmed, lower-cased targets, in no order
extractLinks(content) == {ToLower(TrimSpace(t)) : t \in LinksFrom(content, 0)}

\* findSharedTags of two sorted tag lists
findSharedTags(tags1, tags2) == SortStrings(Range(tags1) \cap Range(tags2))

\* strings.EqualFold, for the letters of the model
EqualFold(a, b) == ToLower(a) = ToLower(b)

\* strings.TrimSuffix(filepath.Base(path), ".md")
NoteName(path) ==
    IF HasSuffix(Base(path), MdSuffix)
    THEN Slice(Base(path), 0, Len(Base(path)) - Len(MdSuffix))
    ELSE Base(path)

RelSharedTags == <<"s", "h", "a", "r", "e", "d", "-", "t", "a", "g", "s">>

RelBacklink == <<"b", "a", "c", "k", "l", "i", "n", "k">>

RelOutgoing == <<"o", "u", "t", "g", "o", "i", "n", "g">>

\* addRelation
addRelation(existing, newRel) ==
    IF existing = <<>> THEN newRel
    ELSE IF Occurrences(existing, newRel) # {} THEN existing
    ELSE existing \o <<",">> \o newRel
----------------------------------------------------------------------------
(* search.Service: Search, the excerpt search *)

\* the page size Search uses when the caller gives none
SearchDefaultLimit == 5

\* the most results Search returns
SearchMaxLimit == 20

\* the characters of an excerpt before and after the match
ExcerptPad == 21

\* the index of the "\n---\n" that closes a block contentStr opens, or -1
BlockEnd(contentStr) ==
    IF HasPrefix(contentStr, DelimNL)
    THEN Index(Slice(contentStr, 4, Len(contentStr)), NLDelimNL)
    ELSE -1

\* the part of the file Search looks in
SearchableText(contentStr, searchContent, searchFrontmatter) ==
    IF searchContent /\ searchFrontmatter THEN contentStr
    ELSE IF searchContent
    THEN (IF BlockEnd(contentStr) # -1
          THEN Slice(contentStr, BlockEnd(contentStr) + 4 + 5, Len(contentStr))
          ELSE contentStr)
    ELSE IF BlockEnd(contentStr) # -1 THEN Slice(contentStr, 4, BlockEnd(contentStr) + 4)
    ELSE <<>>

\* the text and the query as they are compared
Folded(s, caseSensitive) == IF caseSensitive THEN s ELSE ToLower(s)

\* the excerpt around the match at idx
Excerpt(text, idx, n) ==
    (IF Max(idx - ExcerptPad, 0) > 0 THEN <<".", ".", ".">> ELSE <<>>) \o
    TrimSpace(Slice(text, Max(idx - ExcerptPad, 0), Min(idx + n + ExcerptPad, Len(text)))) \o
    (IF Min(idx + n + ExcerptPad, Len(text)) < Len(text) THEN <<".", ".", ".">> ELSE <<>>)

\* the result Search appends for a file whose text holds the query at idx
SearchResult(relativePath, text, query, caseSensitive, idx) ==
    [Path |-> relativePath,
     Title |-> NoteName(relativePath),
     Excerpt |-> Excerpt(text, idx, Len(query)),
     MatchCount |-> Count(Folded(text, caseSensitive), Folded(query, caseSensitive)),
     LineNumber |-> Len(Split(Slice(text, 0, idx), "\n"))]

\* the body of Search's loop from searchableText on
SearchText(relativePath, text, p) ==
    IF Index(Folded(text, p.CaseSensitive), Folded(p.Query, p.CaseSensitive)) = -1
    THEN <<>>
    ELSE <<SearchResult(relativePath, text, p.Query, p.CaseSensitive,
                        Index(Folded(text, p.CaseSensitive),
                              Folded(p.Query, p.CaseSensitive)))>>

\* the body of Search's loop for one file: the results it appends
SearchHit(pf, f, fullPath, p) ==
    IF ~IsAllowed(pf, RelativePath(fullPath)) THEN <<>>
    ELSE IF osReadFile(f, fullPath).err # "None" THEN <<>>
    ELSE SearchText(RelativePath(fullPath),
                    SearchableText(osReadFile(f, fullPath).data,
                                   p.SearchContent, p.SearchFrontmatter), p)

RECURSIVE SearchLoop(_, _, _, _, _)
\* Search's loop over the files, which ends when limit results are there
SearchLoop(pf, f, files, p, results) ==
    IF files = <<>> \/ Len(results) >= p.Limit THEN results
    ELSE SearchLoop(pf, f, Tail(files), p, results \o SearchHit(pf, f, files[1], p))

\* the parameters of Search with the default limit put in, and no ceiling
SearchDefaultedUncapped(params) ==
    [Query |-> params.Query,
     Limit |-> IF params.Limit = 0 THEN SearchDefaultLimit ELSE params.Limit,
     SearchContent |-> params.SearchContent \/ ~params.SearchFrontmatter,
     SearchFrontmatter |-> params.SearchFrontmatter,
     CaseSensitive |-> params.CaseSensitive]

\* the parameters of Search with the defaults put in
SearchDefaulted(params) ==
    [Query |-> params.Query,
     Limit |-> IF params.Limit = 0 THEN SearchDefaultLimit
               ELSE IF params.Limit > SearchMaxLimit THEN SearchMaxLimit
               ELSE params.Limit,
     SearchContent |-> params.SearchContent \/ ~params.SearchFrontmatter,
     SearchFrontmatter |-> params.SearchFrontmatter,
     CaseSensitive |-> params.CaseSensitive]

\* Service.Search, on the files findMarkdownFiles found; the URI of a result is
\* left out
Search(pf, f, files, params) ==
    IF EmptyQuery(params.Query) THEN Err("EmptyQuery")
    ELSE [status |-> "ok",
          results |-> SearchLoop(pf, f, files, SearchDefaulted(params), <<>>)]

----------------------------------------------------------------------------
(* The related and tags tools: their scans *)

RECURSIVE WalkDir(_, _)
RECURSIVE WalkEntries(_, _, _)
\* the callback of filepath.Walk over the entries of the names, in order: a
\* directory whose name opens with "." is skipped, a file named *.md is noted
\* by its path relative to the vault
WalkEntries(f, dir, names) ==
    IF names = <<>> THEN <<>>
    ELSE (IF f[Join(dir, names[1])].kind = "dir"
          THEN (IF HasPrefix(names[1], <<".">>) THEN <<>>
                ELSE WalkDir(f, Join(dir, names[1])))
          ELSE IF HasSuffix(names[1], MdSuffix)
          THEN <<NormalizeSeparators(Rel(VaultPath, Join(dir, names[1])))>>
          ELSE <<>>) \o
         WalkEntries(f, dir, Tail(names))

\* filepath.Walk below dir: the entries of a directory in lexical order
WalkDir(f, dir) ==
    IF osReadDir(f, dir).err # "None" THEN <<>>
    ELSE WalkEntries(f, dir, SortStrings({e.name : e \in osReadDir(f, dir).entries}))

\* what handleRelated takes from the source note
RelatedSource(path, note, searchTags, searchLinks) ==
    [path |-> path,
     noteName |-> NoteName(path),
     searchTags |-> searchTags,
     searchLinks |-> searchLinks,
     sourceTags |-> IF searchTags THEN extractTags(note.Frontmatter, note.Content)
                    ELSE <<>>,
     outgoingLinks |-> IF searchLinks THEN extractLinks(note.Content) ELSE {}]

fileResult(file, relation, tags) ==
    [idx |-> file.idx, relPath |-> file.path, relation |-> relation, tags |-> tags]

\* the results a related worker sends for a note it has read: shared tags, then
\* backlink, then outgoing
RelatedSends(file, src, otherNote) ==
    (IF /\ src.searchTags
        /\ Len(src.sourceTags) > 0
        /\ findSharedTags(src.sourceTags,
                          extractTags(otherNote.Frontmatter, otherNote.Content)) # <<>>
     THEN <<fileResult(file, RelSharedTags,
                       findSharedTags(src.sourceTags,
                                      extractTags(otherNote.Frontmatter,
                                                  otherNote.Content)))>>
     ELSE <<>>) \o
    (IF /\ src.searchLinks
        /\ \E link \in extractLinks(otherNote.Content) : EqualFold(link, src.noteName)
     THEN <<fileResult(file, RelBacklink, <<>>)>>
     ELSE <<>>) \o
    (IF /\ src.searchLinks
        /\ \E link \in src.outgoingLinks : EqualFold(link, NoteName(file.path))
     THEN <<fileResult(file, RelOutgoing, <<>>)>>
     ELSE <<>>)

\* the body of a worker's loop from ReadNote on: a panic of Parse ends the
\* process, a note that cannot be read is passed over
AfterRead(r, msgs) ==
    IF r.status = "panic" THEN Panic
    ELSE IF r.status # "ok" THEN Sends(<<>>)
    ELSE Sends(msgs)

\* the body of a related worker's loop for one file
RelatedFile(pf, f, file, src) ==
    IF ReadNote(pf, f, file.path).ret.status # "ok"
    THEN AfterRead(ReadNote(pf, f, file.path).ret, <<>>)
    ELSE Sends(RelatedSends(file, src, ReadNote(pf, f, file.path).ret.note))

\* the tags a tags worker sends for a note it has read
TagsSends(note) ==
    IF extractTags(note.Frontmatter, note.Content) # <<>>
    THEN <<extractTags(note.Frontmatter, note.Content)>>
    ELSE <<>>

\* the body of a tags worker's loop for one file
TagsFile(pf, f, file) ==
    IF ReadNote(pf, f, file.path).ret.status # "ok"
    THEN AfterRead(ReadNote(pf, f, file.path).ret, <<>>)
    ELSE Sends(TagsSends(ReadNote(pf, f, file.path).ret.note))

\* an entry that takes the relation of the result r in place of what it had
RelatedReplaced(relatedMap, r) ==
    [Path |-> r.relPath, Relation |-> r.relation,
     Tags |-> IF r.relPath \in DOMAIN relatedMap /\ Len(r.tags) = 0
              THEN relatedMap[r.relPath].Tags ELSE r.tags]

\* the entry of relatedMap after the result r
Related(relatedMap, r) ==
    IF r.relPath \in DOMAIN relatedMap
    THEN [Path |-> r.relPath,
          Relation |-> addRelation(relatedMap[r.relPath].Relation, r.relation),
          Tags |-> IF Len(r.tags) > 0 /\ Len(relatedMap[r.relPath].Tags) = 0
                   THEN r.tags ELSE relatedMap[r.relPath].Tags]
    ELSE [Path |-> r.relPath, Relation |-> r.relation, Tags |-> r.tags]

RECURSIVE MergeResults(_, _)
\* the collector's loop of handleRelated over the results received
MergeResults(relatedMap, results) ==
    IF results = <<>> THEN relatedMap
    ELSE MergeResults([q \in DOMAIN relatedMap \cup {results[1].relPath} |->
                          IF q = results[1].relPath THEN Related(relatedMap, results[1])
                          ELSE relatedMap[q]],
                      Tail(results))

\* the entries of a map in the order of its keys
InKeyOrder(m) == [i \in DOMAIN SortStrings(DOMAIN m) |-> m[SortStrings(DOMAIN m)[i]]]

\* handleRelated from the collector's loop on
RelatedOutput(path, results) ==
    [status |-> "ok", Path |-> path,
     Related |-> InKeyOrder(MergeResults([q \in {} |-> <<>>], results))]

\* a count that notes each tag of the lists received once, however many of
\* the lists hold it
CountTagsOnce(tagCounts, received) ==
    [t \in DOMAIN tagCounts \cup UNION {Range(received[i]) : i \in DOMAIN received} |-> 1]

RECURSIVE CountTags(_, _)
\* the collector's loop of handleTags over the tag lists received
CountTags(tagCounts, received) ==
    IF received = <<>> THEN tagCounts
    ELSE CountTags([t \in DOMAIN tagCounts \cup Range(received[1]) |->
                       (IF t \in DOMAIN tagCounts THEN tagCounts[t] ELSE 0) +
                       Cardinality({i \in DOMAIN received[1] : received[1][i] = t})],
                   Tail(received))

\* the TagInfo of every counted tag
TagInfos(tagCounts) == [t \in DOMAIN tagCounts |-> [Tag |-> t, Count |-> tagCounts[t]]]

\* handleTags from the collector's loop on
TagsOutput(received, totalNotes) ==
    [status |-> "ok",
     Tags |-> InKeyOrder(TagInfos(CountTags([t \in {} |-> 0], received))),
     TotalTags |-> Cardinality(DOMAIN CountTags([t \in {} |-> 0], received)),
     TotalNotes |-> totalNotes,
     NotesWithTags |-> Len(received)]

----------------------------------------------------------------------------
(* A scan: the files are enumerated, a pool of workers takes them from a     *)
(* queue and sends results to a second queue, and a collector receives them  *)

\* the scan ends before it starts, with what it returns
Ends(rv) == [done |-> TRUE, ret |-> rv]

\* the scan runs over the files, with what the workers need
Runs(files, ctx) == [done |-> FALSE, files |-> files, ctx |-> ctx]

\* the error SearchAdvanced returns for a query that does not compile: the
\* compiler's error after "Invalid regex pattern: "
InvalidPattern(c) ==
    [status |-> "error", err |-> "InvalidPattern", reason |-> c.reason, expr |-> c.expr]

\* SearchAdvanced up to the start of the workers
SearchStart(f, params) ==
    IF EmptyQuery(params.Query) THEN Ends(Err("EmptyQuery"))
    ELSE IF ~Compile(params).ok THEN Ends(InvalidPattern(Compile(params)))
    ELSE Runs(Indexed(SortStrings(Range(findMarkdownFiles(f, VaultPath)))),
              Defaulted(params))

\* handleRelated from ReadNote to the start of the workers
RelatedStarted(f, path, r, searchTags, searchLinks) ==
    IF r.status # "ok" THEN Ends(r)
    ELSE Runs(Indexed(SortStrings({q \in Range(WalkDir(f, VaultPath)) : q # path})),
              RelatedSource(path, r.note, searchTags, searchLinks))

\* handleRelated up to the start of the workers
RelatedStart(pf, f, input) ==
    RelatedStarted(f, TrimSpace(input.Path), ReadNote(pf, f, TrimSpace(input.Path)).ret,
                   input.Tags \/ ~input.Links, input.Links \/ ~input.Tags)

\* handleTags up to the start of the workers
TagsStart(f) == Runs(Indexed(WalkDir(f, VaultPath)), <<>>)

\* a tool up to the start of its workers
Start(op, pf, f, input) ==
    CASE op = "SearchAdvanced" -> SearchStart(f, input)
      [] op = "Related" -> RelatedStart(pf, f, input)
      [] op = "Tags" -> TagsStart(f)

\* the body of a worker's loop for one file
FileSends(op, pf, f, file, ctx) ==
    CASE op = "SearchAdvanced" -> SearchFile(pf, f, file, ctx)
      [] op = "Related" -> RelatedFile(pf, f, file, ctx)
      [] op = "Tags" -> TagsFile(pf, f, file)

\* a tool from the end of the collector's loop on
Finished(op, received, ctx, files) ==
    CASE op = "SearchAdvanced" -> SearchCollected(received, ctx)
      [] op = "Related" -> RelatedOutput(ctx.path, received)
      [] op = "Tags" -> TagsOutput(received, Len(files))

\* runtime.NumCPU() workers, no more than files, at least one
NumWorkers(cpus, files) == Max(Min(cpus, Len(files)), 1)

\* the capacity of a queue that holds one result for each file
CapacityOfFiles(op, files) == Len(files)

\* the capacity of the queue of results
Capacity(op, files) == IF op = "Related" THEN Len(files) * 3 ELSE Len(files)

RECURSIVE SentInOrder(_, _, _, _, _)
\* what the workers send when the files are taken one after the other
SentInOrder(op, pf, f, files, ctx) ==
    IF files = <<>> THEN <<>>
    ELSE FileSends(op, pf, f, files[1], ctx).msgs \o
         SentInOrder(op, pf, f, Tail(files), ctx)

\* a scan by one worker: a panic ends the process, else every result is
\* collected in the order of the files
ScanInOrder(op, pf, f, files, ctx) ==
    IF \E i \in DOMAIN files : FileSends(op, pf, f, files[i], ctx).panic
    THEN [status |-> "panic"]
    ELSE Finished(op, SentInOrder(op, pf, f, files, ctx), ctx, files)

\* a tool whose workers take the files in order, on a vault that is f when the
\* files are enumerated and g when they are read
ToolInOrder(op, pf, f, g, input) ==
    IF Start(op, pf, f, input).done THEN Start(op, pf, f, input).ret
    ELSE ScanInOrder(op, pf, g, Start(op, pf, f, input).files,
                     Start(op, pf, f, input).ctx)

\* Service.SearchAdvanced
SearchAdvanced(pf, f, params) == ToolInOrder("SearchAdvanced", pf, f, f, params)
----------------------------------------------------------------------------
(* SpecPage: one call of SearchAdvanced on a vault of notes *)

LinkedPath == <<"b", ".", "m", "d">>

HiddenNote == <<".", "g", "i", "t", "/", "c", ".", "m", "d">>

\* a note with a tag and a link to b
TaggedText == <<"x", " ", "#", "t", "\n", "[", "[", "b", "]", "]">>

\* a note with the same tag, in capitals
SharedText == <<"#", "T", " ", "x">>

\* a note with the tag in its frontmatter and a link to a
FmTagged ==
    DelimNL \o <<"t", "a", "g", "s", ":", " ", "t", "\n">> \o DelimNL \o
    <<"x", " ", "[", "[", "A", "]", "]">>

\* the notes a vault may hold
ScanNotes ==
    {At(Under(NotePath), FileNode(TaggedText)),
     At(Under(LinkedPath), FileNode(SharedText)),
     At(Under(BrokenPath), FileNode(Unclosed)),
     At(Under(SubNote), FileNode(FmTagged)),
     At(Under(HiddenNote), FileNode(<<"x">>))}

\* what every vault holds: two folders and a script
ScanBase ==
    {At(Under(SubDir), DirNode), At(Under(GitDir), DirNode),
     At(Under(ScriptPath), FileNode(<<"x">>))}

ScanVaults == {VaultOf(ScanBase \cup S) : S \in SUBSET ScanNotes}

Queries == {<<"x">>, <<"K">>, <<" ">>}

PageSizes == {-1, 0, 1, 2, MaxInt}

PageOffsets == {-1, 0, 1, 2, 3}

PageCalls ==
    {[op |-> "SearchAdvanced",
      params |-> [Query |-> q, UseRegex |-> FALSE, CaseSensitive |-> FALSE,
                  ContextLines |-> 0,
                  Limit |-> l, Offset |-> o]] :
        q \in Queries, l \in PageSizes, o \in PageOffsets}

InitPage ==
    /\ cfg = NewPathFilter(NilConfig)
    /\ fs \in ScanVaults
    /\ pre = fs
    /\ call \in PageCalls
    /\ ret = [status |-> "none"]
    /\ log = <<>>
    /\ pc = "ready"
    /\ scan = NoScan

DoSearchAdvanced ==
    /\ pc = "ready"
    /\ ret' = SearchAdvanced(cfg, fs, call.params)
    /\ pc' = "done"
    /\ UNCHANGED <<cfg, fs, pre, call, log, scan>>

NextPage == DoSearchAdvanced

SpecPage == InitPage /\ [][NextPage]_vars

\* C17's side

\* the admitted notes of the vault with a line the query matches, by path
MatchingPaths(query) ==
    {RelativePath(q) : q \in
        {q \in DOMAIN fs :
            /\ fs[q].kind = "file"
            /\ HasSuffix(q, MdSuffix)
            /\ HasPrefix(q, VaultPath \o <<"/">>)
            /\ IsAllowed(cfg, RelativePath(q))
            /\ \E i \in DOMAIN Split(fs[q].data, "\n") :
                  Occurrences(ToLower(Split(fs[q].data, "\n")[i]), ToLower(query)) # {}}}

\* the page the caller asked for: positions offset .. min(offset+limit, N)-1
PageOf(sorted, limit, offset) ==
    [i \in 1..Max(Min(offset + limit, Len(sorted)) - offset, 0) |-> sorted[offset + i]]

PageLimit == IF call.params.Limit <= 0 THEN 15 ELSE call.params.Limit

PageOffset == IF call.params.Offset < 0 THEN 0 ELSE call.params.Offset

PageAsked ==
    /\ pc = "done"
    /\ call.op = "SearchAdvanced"
    /\ ~EmptyQuery(call.params.Query)

\* C17: SearchAdvanced returns the elements at positions offset ..
\* min(offset+limit, N)-1 of the path-sorted list of the N files with a matching
\* line, and totalFiles = N, for every limit and offset
C17_PageOfSorted ==
    PageAsked =>
        /\ ret.status = "ok"
        /\ ret.totalFiles = Cardinality(MatchingPaths(call.params.Query))
        /\ [i \in DOMAIN ret.results |-> ret.results[i].Path] =
               PageOf(SortStrings(MatchingPaths(call.params.Query)), PageLimit, PageOffset)

----------------------------------------------------------------------------
(* SpecScan: one call of a search or of a scanning tool, its goroutines      *)
(* taking their steps in any order                                          *)

\* the most CPUs runtime.NumCPU() reports
MaxCPU == 2

\* no file
NoPath == <<>>

ScanFiles ==
    {{}, {NotePath}, {NotePath, LinkedPath}, {NotePath, LinkedPath, SubNote},
     {NotePath, LinkedPath, BrokenPath}, {NotePath, LinkedPath, SubNote, HiddenNote}}

\* the vaults a scan runs on
PoolVaults ==
    {VaultOf(ScanBase \cup {e \in ScanNotes : e.at \in {Under(q) : q \in S}}) :
        S \in ScanFiles}

SearchCalls ==
    {[op |-> "Search",
      input |-> [Query |-> <<"x">>, Limit |-> l, SearchContent |-> c,
                 SearchFrontmatter |-> ~c, CaseSensitive |-> FALSE]] :
        l \in {0, 1}, c \in BOOLEAN}

AdvancedCalls ==
    {[op |-> "SearchAdvanced",
      input |-> [Query |-> q, UseRegex |-> FALSE, CaseSensitive |-> FALSE,
                 ContextLines |-> 0,
                 Limit |-> 2, Offset |-> o]] :
        q \in {<<"x">>, <<" ">>}, o \in {0, 1}} \cup
    {[op |-> "SearchAdvanced",
      input |-> [Query |-> <<"x">>, UseRegex |-> FALSE, CaseSensitive |-> TRUE,
                 ContextLines |-> MaxInt,
                 Limit |-> 0, Offset |-> 0]]}

RelatedCalls ==
    {[op |-> "Related", input |-> [Path |-> q, Tags |-> t, Links |-> l]] :
        q \in {NotePath, LinkedPath, BrokenPath}, t \in BOOLEAN, l \in {FALSE}} \cup
    {[op |-> "Related", input |-> [Path |-> NotePath, Tags |-> FALSE, Links |-> TRUE]]}

ScanCalls ==
    SearchCalls \cup AdvancedCalls \cup RelatedCalls \cup {[op |-> "Tags", input |-> <<>>]}

\* a worker that waits for a file
Idle == [at |-> "recv", out |-> <<>>]

\* the notes of a vault
MarkdownIn(f) == {q \in DOMAIN f : f[q].kind = "file" /\ HasSuffix(q, MdSuffix)}

InitScan ==
    /\ cfg = NewPathFilter(NilConfig)
    /\ fs \in PoolVaults
    /\ pre = fs
    /\ call \in ScanCalls
    /\ ret = [status |-> "none"]
    /\ log = <<>>
    /\ pc = "start"
    /\ \E n \in 1..MaxCPU, g \in MarkdownIn(fs) \cup {NoPath} :
          scan = [cpus |-> n, gone |-> g, files |-> <<>>, ctx |-> <<>>, fed |-> 0,
                  fileCh |-> <<>>, fileClosed |-> FALSE, resultsCh |-> <<>>,
                  closes |-> 0, w |-> <<>>, wg |-> 0, closer |-> "none",
                  received |-> <<>>]

\* the vault once the file that does not last until it is read is gone
Lasting(f, gone) == IF gone \in DOMAIN f THEN Without(f, gone) ELSE f

\* the scan has its files: the queues are made and the workers started
Started(s) ==
    /\ scan' = [scan EXCEPT !.files = s.files, !.ctx = s.ctx,
                            !.w = [i \in 1..NumWorkers(scan.cpus, s.files) |-> Idle],
                            !.wg = NumWorkers(scan.cpus, s.files)]
    /\ fs' = Lasting(fs, scan.gone)
    /\ pc' = "feed"
    /\ UNCHANGED ret

\* the tool returns, or panics, before it starts a worker
Ended(s) ==
    /\ ret' = s.ret
    /\ pc' = IF s.ret.status = "panic" THEN "crashed" ELSE "done"
    /\ UNCHANGED <<fs, scan>>

\* the tool up to the start of its workers; a file may be gone from the vault
\* as soon as the files are enumerated
StartScan ==
    /\ pc = "start"
    /\ call.op # "Search"
    /\ IF Start(call.op, cfg, fs, call.input).done
       THEN Ended(Start(call.op, cfg, fs, call.input))
       ELSE Started(Start(call.op, cfg, fs, call.input))
    /\ UNCHANGED <<cfg, pre, call, log>>

\* Search, which reads the files one after the other itself
DoSearch ==
    /\ pc = "start"
    /\ call.op = "Search"
    /\ ret' = Search(cfg, Lasting(fs, scan.gone), findMarkdownFiles(fs, VaultPath),
                     call.input)
    /\ fs' = Lasting(fs, scan.gone)
    /\ pc' = "done"
    /\ UNCHANGED <<cfg, pre, call, log, scan>>

\* fileCh <- file
Feed ==
    /\ pc = "feed"
    /\ scan.fed < Len(scan.files)
    /\ Len(scan.fileCh) < Len(scan.files)
    /\ scan' = [scan EXCEPT !.fileCh = Append(@, scan.files[scan.fed + 1]),
                            !.fed = @ + 1]
    /\ UNCHANGED <<cfg, fs, pre, call, ret, log, pc>>

\* close(fileCh)
CloseFiles ==
    /\ pc = "feed"
    /\ scan.fed = Len(scan.files)
    /\ scan' = [scan EXCEPT !.fileClosed = TRUE]
    /\ pc' = "spawn"
    /\ UNCHANGED <<cfg, fs, pre, call, ret, log>>

\* go func() { wg.Wait(); close(resultsCh) }()
SpawnCloser ==
    /\ pc = "spawn"
    /\ scan' = [scan EXCEPT !.closer = "wait"]
    /\ pc' = "collect"
    /\ UNCHANGED <<cfg, fs, pre, call, ret, log>>

\* the tool's goroutines run
Running == pc \in {"feed", "spawn", "collect"}

\* a worker has taken a file: it panics, or goes on with what it has to send
Taken(w, o) ==
    IF o.panic
    THEN /\ ret' = [status |-> "panic"]
         /\ pc' = "crashed"
         /\ scan' = [scan EXCEPT !.fileCh = Tail(@)]
    ELSE /\ scan' = [scan EXCEPT !.fileCh = Tail(@),
                                 !.w[w] = [at |-> IF o.msgs = <<>> THEN "recv" ELSE "send",
                                           out |-> o.msgs]]
         /\ UNCHANGED <<ret, pc>>

\* for file := range fileCh: worker w takes a file and reads it
Take(w) ==
    /\ Running
    /\ w \in DOMAIN scan.w
    /\ scan.w[w].at = "recv"
    /\ scan.fileCh # <<>>
    /\ Taken(w, FileSends(call.op, cfg, fs, Head(scan.fileCh), scan.ctx))
    /\ UNCHANGED <<cfg, fs, pre, call, log>>

\* resultsCh <- result
Send(w) ==
    /\ Running
    /\ w \in DOMAIN scan.w
    /\ scan.w[w].at = "send"
    /\ Len(scan.resultsCh) < Capacity(call.op, scan.files)
    /\ scan' = [scan EXCEPT !.resultsCh = Append(@, Head(scan.w[w].out)),
                            !.w[w] = [at |-> IF Tail(scan.w[w].out) = <<>> THEN "recv"
                                             ELSE "send",
                                      out |-> Tail(scan.w[w].out)]]
    /\ UNCHANGED <<cfg, fs, pre, call, ret, log, pc>>

\* the range over the closed, empty fileCh ends: worker w returns
Exit(w) ==
    /\ Running
    /\ w \in DOMAIN scan.w
    /\ scan.w[w].at = "recv"
    /\ scan.fileCh = <<>>
    /\ scan.fileClosed
    /\ scan' = [scan EXCEPT !.w[w] = [at |-> "exit", out |-> <<>>], !.wg = @ - 1]
    /\ UNCHANGED <<cfg, fs, pre, call, ret, log, pc>>

\* wg.Wait() returns and resultsCh is closed
CloseResults ==
    /\ Running
    /\ scan.closer = "wait"
    /\ scan.wg = 0
    /\ scan' = [scan EXCEPT !.closes = @ + 1, !.closer = "exit"]
    /\ UNCHANGED <<cfg, fs, pre, call, ret, log, pc>>

\* for r := range resultsCh: the collector receives a result
Receive ==
    /\ pc = "collect"
    /\ scan.resultsCh # <<>>
    /\ scan' = [scan EXCEPT !.resultsCh = Tail(@),
                            !.received = Append(@, Head(scan.resultsCh))]
    /\ UNCHANGED <<cfg, fs, pre, call, ret, log, pc>>

\* what the tool returns
Returns(rv) ==
    /\ ret' = rv
    /\ pc' = IF rv.status = "panic" THEN "crashed" ELSE "done"

\* the range over the closed, empty resultsCh ends: the tool sorts and returns
Finish ==
    /\ pc = "collect"
    /\ scan.resultsCh = <<>>
    /\ scan.closes > 0
    /\ Returns(Finished(call.op, scan.received, scan.ctx, scan.files))
    /\ UNCHANGED <<cfg, fs, pre, call, log, scan>>

\* the steps of the goroutine that serves the call
MainStep == StartScan \/ DoSearch \/ Feed \/ CloseFiles \/ SpawnCloser \/ Receive \/ Finish

\* the steps of worker w
WorkerStep(w) == Take(w) \/ Send(w) \/ Exit(w)

NextScan == MainStep \/ CloseResults \/ \E w \in 1..MaxCPU : WorkerStep(w)

SpecScan == InitScan /\ [][NextScan]_vars

----------------------------------------------------------------------------
(* SpecPool: the worker pool of a scan, from the start of the workers to the *)
(* end of the collector's loop, under fair scheduling of the goroutines.     *)
(* What a worker makes of each file is worked out beforehand, from the vault *)
(* as it is when the files are read.                                         *)

\* what the workers make of the files, file by file
Plan(op, pf, f, files, ctx) == [i \in DOMAIN files |-> FileSends(op, pf, f, files[i], ctx)]

\* the pool of n workers as the tool starts it
Pool(op, pf, f, s, n, g) ==
    [cpus |-> n, gone |-> g, files |-> s.files, ctx |-> s.ctx, fed |-> 0,
     fileCh |-> <<>>, fileClosed |-> FALSE, resultsCh |-> <<>>, closes |-> 0,
     w |-> [i \in 1..NumWorkers(n, s.files) |-> Idle],
     wg |-> NumWorkers(n, s.files), closer |-> "none", received |-> <<>>,
     plan |-> Plan(op, pf, f, s.files, s.ctx)]

InitPool ==
    /\ cfg = NewPathFilter(NilConfig)
    /\ pre \in PoolVaults
    /\ call \in {c \in ScanCalls : c.op \in {"SearchAdvanced", "Related", "Tags"}}
    /\ ~Start(call.op, cfg, pre, call.input).done
    /\ \E n \in 1..MaxCPU, g \in MarkdownIn(pre) \cup {NoPath} :
          /\ fs = Lasting(pre, g)
          /\ scan = Pool(call.op, cfg, Lasting(pre, g),
                         Start(call.op, cfg, pre, call.input), n, g)
    /\ ret = [status |-> "none"]
    /\ log = <<>>
    /\ pc = "feed"

\* worker w takes a file and does with it what the plan says
TakePlanned(w) ==
    /\ Running
    /\ w \in DOMAIN scan.w
    /\ scan.w[w].at = "recv"
    /\ scan.fileCh # <<>>
    /\ Taken(w, scan.plan[Head(scan.fileCh).idx + 1])
    /\ UNCHANGED <<cfg, fs, pre, call, log>>

\* the range over the closed, empty resultsCh ends
EndLoop ==
    /\ pc = "collect"
    /\ scan.resultsCh = <<>>
    /\ scan.closes > 0
    /\ pc' = "collected"
    /\ UNCHANGED <<cfg, fs, pre, call, ret, log, scan>>

\* the steps of the goroutine that serves the call
PoolMain == Feed \/ CloseFiles \/ SpawnCloser \/ Receive \/ EndLoop

\* the steps of worker w
PoolWorker(w) == TakePlanned(w) \/ Send(w) \/ Exit(w)

NextPool == PoolMain \/ CloseResults \/ \E w \in 1..MaxCPU : PoolWorker(w)

\* the scheduler lets every goroutine that can take a step take one in the end
FairPool ==
    /\ WF_vars(PoolMain)
    /\ WF_vars(CloseResults)
    /\ \A w \in 1..MaxCPU : WF_vars(PoolWorker(w))

SpecPool == InitPool /\ [][NextPool]_vars /\ FairPool

\* C18's side

ScanTools == {"SearchAdvanced", "Related", "Tags"}

\* the call has returned, or the process has ended in a panic
ScanOver == pc \in {"done", "crashed"} /\ call.op \in ScanTools

\* strings in strictly ascending order
Ascending(ss) == \A i, j \in DOMAIN ss : i < j => StrLess(ss[i], ss[j])

\* the paths, or the tag names, of what the tool returned, in its order
Listed ==
    CASE call.op = "SearchAdvanced" -> [i \in DOMAIN ret.results |-> ret.results[i].Path]
      [] call.op = "Related" -> [i \in DOMAIN ret.Related |-> ret.Related[i].Path]
      [] call.op = "Tags" -> [i \in DOMAIN ret.Tags |-> ret.Tags[i].Tag]

\* C18: for a given vault and given arguments SearchAdvanced, Related and Tags
\* return the same output whatever the order of the workers' steps and the
\* number of workers, namely what one worker taking the files in order makes
\* them return; the results of SearchAdvanced and Related are in ascending path
\* order, those of Tags in ascending tag order
C18_SameOutput ==
    ScanOver =>
        /\ ret = ToolInOrder(call.op, cfg, pre, fs, call.input)
        /\ ret.status = "ok" => Ascending(Listed)

\* two workers have delivered their results against the order of the files,
\* and the tool has returned
C18_Witness ==
    /\ pc = "done"
    /\ call.op = "SearchAdvanced"
    /\ scan.gone = NoPath
    /\ Len(scan.w) = 2
    /\ Len(scan.received) >= 2
    /\ scan.received[1].idx > scan.received[2].idx
    /\ Len(ret.results) = 2

\* C19's side

\* no worker is left with a result to send
AllSent == \A w \in DOMAIN scan.w : scan.w[w].at = "exit"

\* C19: every scan ends: the workers exit, the queue of results is closed once,
\* and only when the last worker has sent its last result, and the collector's
\* loop ends with the tool returning
C19_ScanTerminates ==
    /\ [](scan.closes <= 1 /\ (scan.closes = 1 => AllSent))
    /\ <>(pc = "collected" /\ AllSent /\ scan.closes = 1)

\* C20's side

\* the call came to scan the files, and the file that could not be read is one
\* it had enumerated
ReadFailed ==
    /\ pc \in {"done", "crashed"}
    /\ call.op \in ScanTools => ~Start(call.op, cfg, pre, call.input).done
    /\ scan.gone \in Range(findMarkdownFiles(pre, VaultPath))
    /\ call.op = "Related" => RelativePath(scan.gone) # TrimSpace(call.input.Path)
    /\ call.op \in {"Related", "Tags"} =>
           RelativePath(scan.gone) \in Range(WalkDir(pre, VaultPath))

\* what the call returns on a vault that never held the file
AsIfAbsent ==
    IF call.op = "Search"
    THEN Search(cfg, fs, findMarkdownFiles(fs, VaultPath), call.input)
    ELSE ToolInOrder(call.op, cfg, fs, fs, call.input)

\* C20: when a file of the scan cannot be read, the scan runs to its end and
\* returns without an error, and returns what it would on a vault without
\* that file
C20_FailedFileSkipped ==
    ReadFailed => ret.status = "ok" /\ ret = AsIfAbsent
----------------------------------------------------------------------------
(* SpecQuery: one call of Search or of SearchAdvanced, taken stage by stage  *)
(* and file by file in the order of the file list, with the accesses to the *)
(* disk noted in the log                                                     *)

\* the characters of the notes that are searched
LineChars == {"x", "#", " ", "\n"}

\* the most characters of such a note
MaxLineLen == 4

\* five lines, the third with the word looked for
FiveLines == <<"a", "\n", "a", "\n", "x", "\n", "a", "\n", "a">>

LineTexts == SeqsUpTo(LineChars, MaxLineLen) \cup {FiveLines}

\* a directory whose name opens with a dot, and a note in it
DotDir == <<".", "t">>

DotNote == <<".", "t", "/", "c", ".", "m", "d">>

\* a vault with one note of the text, a script and a note in the .git folder
LineVault(text) ==
    VaultOf({At(Under(NotePath), FileNode(text)),
             At(Under(ScriptPath), FileNode(<<"x">>)),
             At(Under(GitDir), DirNode),
             At(Under(HiddenNote), FileNode(<<"x">>))})

\* a vault with a note, and notes in two folders whose names open with a dot
DotVault ==
    VaultOf({At(Under(NotePath), FileNode(<<"x">>)),
             At(Under(DotDir), DirNode),
             At(Under(DotNote), FileNode(<<"x", " ", "#", "x">>)),
             At(Under(GitDir), DirNode),
             At(Under(HiddenNote), FileNode(<<"x">>))})

\* more notes than Search ever returns, each with the word looked for
BigCount == SearchMaxLimit + 2

BigVault ==
    VaultOf({At(Under(<<LowerChars[i]>> \o MdSuffix), FileNode(<<"x">>)) : i \in 1..BigCount})

\* the vaults with a note of every text
LineVaults == {LineVault(t) : t \in LineTexts}

\* the vaults every call is made on
QueryVaults == {LineVault(<<"x">>), LineVault(FiveLines), DotVault, BigVault}

\* the queries made on every text: a word, a tag, and expressions tied to the
\* end and to the start of the line
LineQueries ==
    {[Query |-> <<"x">>, UseRegex |-> FALSE],
     [Query |-> <<"#", "x">>, UseRegex |-> FALSE],
     [Query |-> <<"x", "$">>, UseRegex |-> TRUE],
     [Query |-> <<"^", "#">>, UseRegex |-> TRUE]}

\* further queries: a capital, "(" as an expression and as text, blank and
\* empty queries
OddQueries ==
    {[Query |-> <<"X">>, UseRegex |-> TRUE],
     [Query |-> <<"(">>, UseRegex |-> TRUE],
     [Query |-> <<"(">>, UseRegex |-> FALSE],
     [Query |-> <<" ">>, UseRegex |-> TRUE],
     [Query |-> <<>>, UseRegex |-> FALSE]}

LineRadii == {0, 1}

ContextRadii == {-1, 0, 1, 2, MaxInt}

QueryLimits == {-1, 0, 1, 2, SearchMaxLimit + 5}

Advanced(q, caseSensitive, c) ==
    [op |-> "SearchAdvanced",
     input |-> [Query |-> q.Query, UseRegex |-> q.UseRegex, CaseSensitive |-> caseSensitive,
                ContextLines |-> c, Limit |-> 0, Offset |-> 0]]

\* the calls made on every text
LineCalls == {Advanced(q, FALSE, c) : q \in LineQueries, c \in LineRadii}

QueryCalls ==
    {Advanced(q, s, c) : q \in LineQueries \cup OddQueries, s \in BOOLEAN,
                         c \in ContextRadii} \cup
    {[op |-> "Search",
      input |-> [Query |-> q, Limit |-> l, SearchContent |-> TRUE,
                 SearchFrontmatter |-> FALSE, CaseSensitive |-> FALSE]] :
        q \in {<<"x">>, <<" ">>, <<>>}, l \in QueryLimits}

\* the call's progress: the file list, the index of the next file, and what
\* has been gathered
Progress(files, ctx, i, got) == [files |-> files, ctx |-> ctx, i |-> i, got |-> got]

InitQuery ==
    /\ cfg = NewPathFilter(NilConfig)
    /\ \/ fs \in LineVaults /\ call \in LineCalls
       \/ fs \in QueryVaults /\ call \in QueryCalls
    /\ pre = fs
    /\ ret = NoRet
    /\ log = <<>>
    /\ pc = "ready"
    /\ scan = Progress(<<>>, <<>>, 0, <<>>)

\* the call returns rv
Answer(rv) ==
    /\ ret' = rv
    /\ pc' = IF rv.status = "panic" THEN "crashed" ELSE "done"

\* the test of the query: an empty or blank query is an error
CheckQuery ==
    /\ pc = "ready"
    /\ IF EmptyQuery(call.input.Query) THEN Answer(Err("EmptyQuery"))
       ELSE /\ pc' = IF call.op = "Search" THEN "enumerate" ELSE "compile"
            /\ UNCHANGED ret
    /\ UNCHANGED <<cfg, fs, pre, call, log, scan>>

\* SearchAdvanced builds its pattern: a query that does not compile is an error
CompilePattern ==
    /\ pc = "compile"
    /\ IF ~Compile(call.input).ok THEN Answer(InvalidPattern(Compile(call.input)))
       ELSE /\ pc' = "enumerate"
            /\ UNCHANGED ret
    /\ UNCHANGED <<cfg, fs, pre, call, log, scan>>

RECURSIVE DirsRead(_, _)
\* the directories findMarkdownFiles reads below dirPath and dirPath itself, in
\* the order it reads them
DirsRead(f, dirPath) ==
    <<Ev("ReadDir", dirPath, osReadDir(f, dirPath).err = "None")>> \o
    (IF osReadDir(f, dirPath).err # "None" THEN <<>>
     ELSE LET names == SortStrings({e.name : e \in osReadDir(f, dirPath).entries})
              sub[i \in 0..Len(names)] ==
                  IF i = 0 THEN <<>>
                  ELSE sub[i - 1] \o
                       (IF f[Join(dirPath, names[i])].kind = "dir"
                        THEN DirsRead(f, Join(dirPath, names[i]))
                        ELSE <<>>)
          IN  sub[Len(names)])

\* the file list as the call uses it: Search takes the files as they were
\* found, SearchAdvanced sorts them and gives each its index
FileList(op, found) ==
    IF op = "Search" THEN Indexed(found) ELSE Indexed(SortStrings(Range(found)))

\* what the loop over the files works with
QueryContext(op, input) ==
    IF op = "Search" THEN SearchDefaulted(input) ELSE Defaulted(input)

\* s.findMarkdownFiles(s.vaultPath)
Enumerate ==
    /\ pc = "enumerate"
    /\ scan' = Progress(FileList(call.op, findMarkdownFiles(fs, VaultPath)),
                        QueryContext(call.op, call.input), 0, <<>>)
    /\ log' = log \o DirsRead(fs, VaultPath)
    /\ pc' = "visit"
    /\ UNCHANGED <<cfg, fs, pre, call, ret>>

\* the file the loop is at
Current == scan.files[scan.i + 1]

\* the accesses of the loop's body for a file: the filter's check, and the
\* read when the filter admits the file
VisitLog(pf, f, file) ==
    <<Ev("IsAllowed", RelativePath(file.path), IsAllowed(pf, RelativePath(file.path)))>> \o
    (IF IsAllowed(pf, RelativePath(file.path))
     THEN <<Ev("ReadFile", file.path, osReadFile(f, file.path).err = "None")>>
     ELSE <<>>)

\* Search's loop stops: every file was visited, or limit results are there
SearchStops == scan.i >= Len(scan.files) \/ Len(scan.got) >= scan.ctx.Limit

\* one turn of Search's loop
VisitSearch ==
    /\ pc = "visit"
    /\ call.op = "Search"
    /\ ~SearchStops
    /\ scan' = [scan EXCEPT !.i = @ + 1,
                            !.got = @ \o SearchHit(cfg, fs, Current.path, scan.ctx)]
    /\ log' = log \o VisitLog(cfg, fs, Current)
    /\ UNCHANGED <<cfg, fs, pre, call, ret, pc>>

\* Search returns its results
ReturnSearch ==
    /\ pc = "visit"
    /\ call.op = "Search"
    /\ SearchStops
    /\ Answer([status |-> "ok", results |-> scan.got])
    /\ UNCHANGED <<cfg, fs, pre, call, log, scan>>

\* the body of a SearchAdvanced worker's loop for the next file
VisitAdvanced ==
    /\ pc = "visit"
    /\ call.op = "SearchAdvanced"
    /\ scan.i < Len(scan.files)
    /\ log' = log \o VisitLog(cfg, fs, Current)
    /\ IF SearchFile(cfg, fs, Current, scan.ctx).panic
       THEN /\ Answer([status |-> "panic"])
            /\ UNCHANGED scan
       ELSE /\ scan' = [scan EXCEPT !.i = @ + 1,
                                    !.got = @ \o SearchFile(cfg, fs, Current, scan.ctx).msgs]
            /\ UNCHANGED <<ret, pc>>
    /\ UNCHANGED <<cfg, fs, pre, call>>

\* SearchAdvanced sorts what was collected and returns its page
ReturnAdvanced ==
    /\ pc = "visit"
    /\ call.op = "SearchAdvanced"
    /\ scan.i >= Len(scan.files)
    /\ Answer(SearchCollected(scan.got, scan.ctx))
    /\ UNCHANGED <<cfg, fs, pre, call, log, scan>>

NextQuery ==
    \/ CheckQuery
    \/ CompilePattern
    \/ Enumerate
    \/ VisitSearch
    \/ ReturnSearch
    \/ VisitAdvanced
    \/ ReturnAdvanced

SpecQuery == InitQuery /\ [][NextQuery]_vars

----------------------------------------------------------------------------
(* Claims about Search and SearchAdvanced *)

\* SearchAdvanced has returned its results
AdvancedReturned == pc = "done" /\ call.op = "SearchAdvanced" /\ ret.status = "ok"

\* the path lies below a directory whose name opens with a dot
InDotDirectory(path) ==
    \E i \in 1..(Len(Split(path, "/")) - 1) : HasPrefix(Split(path, "/")[i], <<".">>)

\* C21: SearchAdvanced reports no file that lies below a directory whose name
\* opens with a dot, and every file it reports is one the PathFilter admits
C21_NoDotDirectories ==
    AdvancedReturned =>
        \A i \in DOMAIN ret.results :
            /\ ~InDotDirectory(ret.results[i].Path)
            /\ IsAllowed(cfg, ret.results[i].Path)

\* the lines of the note at the path, as the vault held it when the call began
LinesOf(path) == Split(pre[Under(path)].data, "\n")

\* the 1-based numbers of the lines of the note that the call's pattern matches
MatchingNumbers(path) ==
    {n \in DOMAIN LinesOf(path) : MatchString(Compile(call.input), LinesOf(path)[n])}

\* the notes SearchAdvanced reads: the files named *.md that the filter admits
ScannedNotes ==
    {RelativePath(q) : q \in {q \in MarkdownIn(pre) : IsAllowed(cfg, RelativePath(q))}}

\* the line numbers of the matches of a result, in the order of the list
LineNumbers(result) == [i \in DOMAIN result.Matches |-> result.Matches[i].Line]

\* the numbers grow from each entry to the next
Increasing(ns) == \A i, j \in DOMAIN ns : i < j => ns[i] < ns[j]

\* C22: the matches SearchAdvanced lists for a file are one for every line the
\* pattern matches and none for any other line, however often the pattern
\* occurs in a line, each with the line's 1-based number, in ascending order of
\* the lines; a file without a matching line is not listed
C22_OneMatchPerLine ==
    AdvancedReturned =>
        /\ \A i \in DOMAIN ret.results :
              /\ ret.results[i].Path \in ScannedNotes
              /\ Range(LineNumbers(ret.results[i])) = MatchingNumbers(ret.results[i].Path)
              /\ Increasing(LineNumbers(ret.results[i]))
              /\ ret.results[i].Matches # <<>>
        /\ \A q \in ScannedNotes :
              MatchingNumbers(q) = {} => \A i \in DOMAIN ret.results : ret.results[i].Path # q

\* C22 witness: of the lines "xx" and "x" the first, where the word occurs
\* twice, is listed once, before the second
C22_Witness ==
    /\ AdvancedReturned
    /\ pre[Under(NotePath)].data = <<"x", "x", "\n", "x">>
    /\ call.input.Query = <<"x">>
    /\ Len(ret.results) = 1
    /\ LineNumbers(ret.results[1]) = <<1, 2>>

\* the context radius the caller asked for, 2 when what was asked is not
\* positive
Radius == IF call.input.ContextLines <= 0 THEN 2 ELSE call.input.ContextLines

\* lines max(1, L-c) .. min(n, L+c) of the n lines, joined by newlines
Window(lines, L, c) ==
    JoinWith(SubSeq(lines, IF L - c < 1 THEN 1 ELSE L - c,
                    IF L + c > Len(lines) THEN Len(lines) ELSE L + c), <<"\n">>)

\* C23: the context of a match on line L of a file of n lines is lines
\* max(1, L-c) .. min(n, L+c) of the file joined by newlines, c being the
\* context radius asked for, or 2 when that is not positive
C23_ContextWindow ==
    AdvancedReturned =>
        \A i \in DOMAIN ret.results : \A k \in DOMAIN ret.results[i].Matches :
            ret.results[i].Matches[k].Context =
                Window(LinesOf(ret.results[i].Path), ret.results[i].Matches[k].Line, Radius)

\* C23 witness: the match on line 3 of a note of five lines, with radius 2, has
\* the whole note as its context
C23_Witness ==
    /\ AdvancedReturned
    /\ pre[Under(NotePath)].data = FiveLines
    /\ call.input.ContextLines = 2
    /\ Len(ret.results) = 1
    /\ Len(ret.results[1].Matches) = 1
    /\ ret.results[1].Matches[1].Line = 3
    /\ ret.results[1].Matches[1].Context = FiveLines

\* the hashtag tokens of a line, each by its first index and the index after
\* its last: a "#" and the run of letters, digits, "_", "-" and "/" after it,
\* which is not empty
TagTokens(line) ==
    {[from |-> a, to |-> a + 1 + TagRun(Slice(line, a + 1, Len(line)))] :
        a \in {a \in 0..(Len(line) - 1) :
                  line[a + 1] = "#" /\ TagRun(Slice(line, a + 1, Len(line))) > 0}}

\* the spans of the line the pattern matches
MatchedSpans(pattern, line) ==
    {[from |-> i, to |-> i + Len(pattern.lit)] :
        i \in {i \in 0..Len(line) : MatchAt(pattern, line, i)}}

\* a span the pattern matches lies inside a hashtag token of the line
MatchedInTag(pattern, line) ==
    \E s \in MatchedSpans(pattern, line) : \E t \in TagTokens(line) :
        t.from <= s.from /\ s.to <= t.to

\* C24: a match of SearchAdvanced is flagged is-tag if and only if a span of
\* its line that the pattern matches lies inside a hashtag token of the line
C24_TagFlag ==
    AdvancedReturned =>
        \A i \in DOMAIN ret.results : \A k \in DOMAIN ret.results[i].Matches :
            ret.results[i].Matches[k].IsTag =
                MatchedInTag(Compile(call.input),
                             LinesOf(ret.results[i].Path)[ret.results[i].Matches[k].Line])

\* the query is empty or made of white space only
BlankQuery == \A i \in DOMAIN call.input.Query : IsSpace(call.input.Query[i])

\* the call is a SearchAdvanced in regex mode whose query is an expression
\* with a "(" that nothing closes
BadExpression ==
    /\ call.op = "SearchAdvanced"
    /\ call.input.UseRegex
    /\ ~BlankQuery
    /\ \E i \in DOMAIN call.input.Query : call.input.Query[i] = "("
    /\ \A i \in DOMAIN call.input.Query : call.input.Query[i] # ")"

\* C26: Search and SearchAdvanced answer an empty or blank query with the
\* invalid-argument error, before a pattern is compiled and before any file is
\* enumerated or read; SearchAdvanced in regex mode answers a query that does
\* not compile with the invalid-pattern error that carries the compiler's
\* reason, and reads no file either
C26_RejectedBeforeAnyRead ==
    /\ BlankQuery =>
          /\ pc \in {"ready", "done"}
          /\ log = <<>>
          /\ pc = "done" => ret = Err("EmptyQuery")
    /\ BadExpression =>
          /\ pc \in {"ready", "compile", "done"}
          /\ log = <<>>
          /\ pc = "done" =>
                /\ ret.status = "error"
                /\ ret.err = "InvalidPattern"
                /\ ret.reason = "missing closing )"

\* C26 witness: on a vault of many notes the expression "(" was refused and
\* nothing was read
C26_Witness ==
    /\ pc = "done"
    /\ BadExpression
    /\ fs = BigVault
    /\ ret.status = "error"
    /\ ret.err = "InvalidPattern"
    /\ log = <<>>

\* the caller's limit, 5 when the caller gives none
AskedLimit == IF call.input.Limit = 0 THEN 5 ELSE call.input.Limit

\* Search has returned its results
SearchReturned == pc = "done" /\ call.op = "Search" /\ ret.status = "ok"

\* the files read so far, in the order they were read
FilesRead == SelectSeq(log, LAMBDA e : e.ev = "ReadFile")

\* once as many results as the most Search may hold are there, no file was
\* read after the one that gave the last of them
ReadsStopAt(most) ==
    call.op = "Search" /\ Len(scan.got) >= most =>
        IF most <= 0 THEN FilesRead = <<>>
        ELSE FilesRead[Len(FilesRead)].path = Under(scan.got[Len(scan.got)].Path)

\* C27, as the spec states it: Search returns no more than 20 results and no
\* more than the caller's limit (5 when none is given), for every vault and
\* every limit, and it reads no file once that many results are there
C27_NeverMoreThanLimit ==
    /\ SearchReturned => Len(ret.results) <= 20 /\ Len(ret.results) <= AskedLimit
    /\ ReadsStopAt(IF AskedLimit > 20 THEN 20 ELSE AskedLimit)

\* C27, amended: Search returns no more than 20 results and, for a limit that
\* is not negative, no more than the caller's limit (5 when none is given);
\* for a negative limit it returns no result; it reads no file once that many
\* results are there
C27_AtMostLimit ==
    /\ SearchReturned =>
          /\ Len(ret.results) <= 20
          /\ AskedLimit >= 0 => Len(ret.results) <= AskedLimit
          /\ AskedLimit < 0 => ret.results = <<>>
    /\ ReadsStopAt(IF AskedLimit > 20 THEN 20 ELSE AskedLimit)

\* C27 witness: asked for 25 results of a vault of more than 20 matching
\* notes, Search returned 20 and read 20 files
C27_Witness ==
    /\ SearchReturned
    /\ fs = BigVault
    /\ call.input.Limit = 25
    /\ Len(ret.results) = 20
    /\ Len(FilesRead) = 20

----------------------------------------------------------------------------
(* The search tool: handleSearch *)

\* a result of the tool has a match that is a tag match
HasTagMatch(item) == \E k \in DOMAIN item.Matches : item.Matches[k].IsTag

\* the less function of the tool's sort: a result with a tag match before one
\* without, and by path among results alike in that
ItemLess(a, b) ==
    IF HasTagMatch(a) # HasTagMatch(b) THEN HasTagMatch(a) ELSE StrLess(a.Path, b.Path)

RECURSIVE SortItems(_)
\* sort.SliceStable by ItemLess, of results with distinct paths
SortItems(items) ==
    IF items = {} THEN <<>>
    ELSE <<CHOOSE a \in items : \A b \in items \ {a} : ItemLess(a, b)>> \o
         SortItems(items \ {CHOOSE a \in items : \A b \in items \ {a} : ItemLess(a, b)})

\* handleSearch from the return of SearchAdvanced on
SearchOutput(r, offset) ==
    IF r.status # "ok" THEN r
    ELSE [status |-> "ok",
          Results |-> SortItems(Range(r.results)),
          TotalFiles |-> r.totalFiles,
          HasMore |-> r.totalFiles > AddInt(offset, Len(r.results))]

\* the parameters handleSearch hands to SearchAdvanced
SearchParams(input) ==
    [Query |-> TrimSpace(input.Query),
     UseRegex |-> input.UseRegex,
     CaseSensitive |-> input.CaseSensitive,
     ContextLines |-> IF input.ContextLines <= 0 THEN DefaultContextLines
                      ELSE input.ContextLines,
     Limit |-> IF input.Limit <= 0 THEN DefaultLimit ELSE input.Limit,
     Offset |-> Max(input.Offset, 0)]

\* handleSearch
handleSearch(pf, f, input) ==
    IF TrimSpace(input.Query) = <<>> THEN Err("EmptyQuery")
    ELSE SearchOutput(SearchAdvanced(pf, f, SearchParams(input)),
                      SearchParams(input).Offset)

----------------------------------------------------------------------------
(* SpecPager: a caller of the search tool takes page after page, each from   *)
(* the offset where the page before ended, as long as the tool says there is *)
(* more                                                                      *)

\* a note with the word, and a note with the word in a tag
WordText == <<"x">>

TagText == <<"#", "x">>

PagedPaths == {NotePath, LinkedPath, BrokenPath}

\* which of the three notes a vault holds, and with which text
PagerVaults ==
    {VaultOf({At(Under(q), FileNode(t[q])) : q \in S}) :
        S \in SUBSET PagedPaths, t \in [PagedPaths -> {WordText, TagText}]}

PagerLimits == {0, 1, 2}

PagerCalls ==
    {[op |-> "search",
      input |-> [Query |-> q, UseRegex |-> FALSE, CaseSensitive |-> FALSE,
                 ContextLines |-> 0, Limit |-> l, Offset |-> 0]] :
        q \in {<<"x">>, <<"#", "x">>}, l \in PagerLimits}

\* what the caller has so far: the offset of the next page, the results of the
\* pages it took, one after the other, and the number of pages
Paged(offset, items, pages) == [offset |-> offset, items |-> items, pages |-> pages]

InitPager ==
    /\ cfg = NewPathFilter(NilConfig)
    /\ fs \in PagerVaults
    /\ pre = fs
    /\ call \in PagerCalls
    /\ ret = NoRet
    /\ log = <<>>
    /\ pc = "paging"
    /\ scan = Paged(0, <<>>, 0)

\* the caller's next call, for the page at its offset
PageInput == [call.input EXCEPT !.Offset = scan.offset]

\* the caller goes on with the page r
Turned(r) ==
    IF r.status # "ok"
    THEN /\ pc' = IF r.status = "panic" THEN "crashed" ELSE "done"
         /\ UNCHANGED scan
    ELSE /\ pc' = IF r.HasMore THEN "paging" ELSE "done"
         /\ scan' = Paged(scan.offset + SearchParams(call.input).Limit,
                          scan.items \o r.Results, scan.pages + 1)

\* one call of the search tool
FetchPage ==
    /\ pc = "paging"
    /\ ret' = handleSearch(cfg, fs, PageInput)
    /\ Turned(handleSearch(cfg, fs, PageInput))
    /\ UNCHANGED <<cfg, fs, pre, call, log>>

NextPager == FetchPage

SpecPager == InitPager /\ [][NextPager]_vars

\* C25's side

\* the paths of the results the caller has, in the order it got them
PagedFiles == [i \in DOMAIN scan.items |-> scan.items[i].Path]

\* the notes with a line the query matches
MatchingNotes == {q \in ScannedNotes : MatchingNumbers(q) # {}}

\* C25: the pages of the search tool for offsets 0, limit, 2*limit, ... hold,
\* one after the other, every matching file exactly once, every file with a
\* tag match before every file without, by path among files alike in that;
\* and hasMore is true exactly when matching files remain beyond the page
C25_TagMatchesFirst ==
    /\ pc = "done" =>
          /\ ret.status = "ok"
          /\ Range(PagedFiles) = MatchingNotes
          /\ Len(PagedFiles) = Cardinality(MatchingNotes)
          /\ \A i, j \in DOMAIN scan.items : i < j => ItemLess(scan.items[i], scan.items[j])
    /\ scan.pages > 0 => ret.HasMore = (Cardinality(MatchingNotes) > Len(scan.items))

----------------------------------------------------------------------------
(* SpecLinks: the related tool asked about a note and then about a second    *)
(* note of the same vault                                                    *)

\* a link to b and a tag
LinksToB == <<"[", "[", "b", "]", "]", " ", "#", "t">>

\* a link to a in capitals and the tag in capitals
LinksToA == <<"[", "[", "A", "]", "]", " ", "#", "T">>

\* a link to c
LinksToC == <<"[", "[", "c", "]", "]">>

LinkTexts == {LinksToB, LinksToA, LinksToC, <<"x">>, Unclosed}

\* the notes asked about: two at the top of the vault, one in a directory
\* whose name opens with a dot
LinkedNotes == {NotePath, LinkedPath, DotNote}

\* the vaults with some of the notes, each with one of the texts
LinkVaults ==
    {VaultOf({At(Under(DotDir), DirNode)} \cup {At(Under(q), FileNode(t[q])) : q \in S}) :
        S \in SUBSET LinkedNotes, t \in [LinkedNotes -> LinkTexts]}

\* the related tool is asked about a, then about b, with the links looked at
LinkCalls ==
    {[op |-> "Related", a |-> a, b |-> b, Tags |-> tags] :
        a \in LinkedNotes, b \in LinkedNotes, tags \in BOOLEAN}

InitLinks ==
    /\ cfg = NewPathFilter(NilConfig)
    /\ fs \in LinkVaults
    /\ pre = fs
    /\ call \in LinkCalls
    /\ ret = NoRet
    /\ log = <<>>
    /\ pc = "first"
    /\ scan = [first |-> NoRet]

\* handleRelated, with the files taken in the order of the file list
handleRelated(pf, f, path, tags) ==
    ToolInOrder("Related", pf, f, f, [Path |-> path, Tags |-> tags, Links |-> TRUE])

\* where the process is after a call that gave r
AfterCall(r, next) == IF r.status = "panic" THEN "crashed" ELSE next

\* the first call: about a
RelateFirst ==
    /\ pc = "first"
    /\ scan' = [first |-> handleRelated(cfg, fs, call.a, call.Tags)]
    /\ pc' = AfterCall(handleRelated(cfg, fs, call.a, call.Tags), "second")
    /\ UNCHANGED <<cfg, fs, pre, call, ret, log>>

\* the second call: about b
RelateSecond ==
    /\ pc = "second"
    /\ ret' = handleRelated(cfg, fs, call.b, call.Tags)
    /\ pc' = AfterCall(handleRelated(cfg, fs, call.b, call.Tags), "done")
    /\ UNCHANGED <<cfg, fs, pre, call, log, scan>>

NextLinks == RelateFirst \/ RelateSecond

SpecLinks == InitLinks /\ [][NextLinks]_vars

\* the process has made both calls, or has ended in one of them
LinksSettled == pc \in {"done", "crashed"}

\* path is an admitted note of the vault
AdmittedNote(path) ==
    /\ Under(path) \in DOMAIN fs
    /\ fs[Under(path)].kind = "file"
    /\ IsAllowed(cfg, path)

\* the wiki-links of the note at path (no note of LinkTexts has links in a
\* frontmatter)
WikiLinks(path) == extractLinks(fs[Under(path)].data)

\* the tags of the note at path (no note of LinkTexts has tags in a frontmatter)
NoteTags(path) == extractTags(EmptyMap, fs[Under(path)].data)

\* the note at "from" links to the bare filename of the note at "to"
LinksTo(from, to) == \E link \in WikiLinks(from) : EqualFold(link, NoteName(to))

\* the answer r lists the note at path with a relation that contains rel
Lists(r, path, rel) ==
    /\ r.status = "ok"
    /\ \E i \in DOMAIN r.Related :
          /\ r.Related[i].Path = path
          /\ Occurrences(r.Related[i].Relation, rel) # {}

\* the answer r lists the note at path with the shared tags T
ListsShared(r, path, T) ==
    /\ r.status = "ok"
    /\ \E i \in DOMAIN r.Related :
          /\ r.Related[i].Path = path
          /\ Occurrences(r.Related[i].Relation, RelSharedTags) # {}
          /\ r.Related[i].Tags = T

\* the lists of tags a note of the model may share with another
SharedTagLists == {<<>>, <<<<"t">>>>}

\* C28: for two distinct admitted notes A and B, with the links looked at,
\* Related(A) lists B as "outgoing" exactly if A links to B's bare filename,
\* and exactly then Related(B) lists A as "backlink"; and B is in Related(A)
\* with shared tags T exactly if A is in Related(B) with the same T
C28_RelatedSymmetric ==
    (/\ LinksSettled
     /\ call.a # call.b
     /\ AdmittedNote(call.a)
     /\ AdmittedNote(call.b))
    => /\ Lists(scan.first, call.b, RelOutgoing) <=> LinksTo(call.a, call.b)
       /\ LinksTo(call.a, call.b) <=> Lists(ret, call.a, RelBacklink)
       /\ \A T \in SharedTagLists :
             ListsShared(scan.first, call.b, T) <=> ListsShared(ret, call.a, T)

----------------------------------------------------------------------------
(* SpecTags: the worker pool of the tags tool on vaults of tagged notes      *)

\* a note with one tag written twice, in small letters and in capitals
TwiceTagged == <<"#", "t", " ", "#", "T">>

\* a note with two tags
TwoTags == <<"#", "t", " ", "#", "s">>

\* a note with a tag in its frontmatter and the same tag in its text
FmAndText == DelimNL \o <<"t", "a", "g", "s", ":", " ", "s", "\n">> \o DelimNL \o <<"#", "S">>

TagTexts == {TwiceTagged, TwoTags, FmAndText, <<"x">>}

\* the vaults with some of three notes, each with one of the texts; the third
\* may hold a frontmatter that Parse panics on
TagVaults ==
    {VaultOf({At(Under(q), FileNode(t[q])) : q \in S}) :
        S \in SUBSET PagedPaths,
        t \in {u \in [PagedPaths -> TagTexts \cup {Unclosed}] :
                  u[NotePath] # Unclosed /\ u[LinkedPath] # Unclosed}}

InitTags ==
    /\ cfg = NewPathFilter(NilConfig)
    /\ fs \in TagVaults
    /\ pre = fs
    /\ call = [op |-> "Tags", input |-> <<>>]
    /\ ret = NoRet
    /\ log = <<>>
    /\ pc = "start"
    /\ \E n \in 1..MaxCPU, g \in ({Under(LinkedPath)} \cap DOMAIN fs) \cup {NoPath} :
          scan = [cpus |-> n, gone |-> g, files |-> <<>>, ctx |-> <<>>, fed |-> 0,
                  fileCh |-> <<>>, fileClosed |-> FALSE, resultsCh |-> <<>>,
                  closes |-> 0, w |-> <<>>, wg |-> 0, closer |-> "none",
                  received |-> <<>>]

NextTags ==
    \/ StartScan
    \/ Feed
    \/ CloseFiles
    \/ SpawnCloser
    \/ Receive
    \/ Finish
    \/ CloseResults
    \/ \E w \in 1..MaxCPU : Take(w) \/ Send(w) \/ Exit(w)

SpecTags == InitTags /\ [][NextTags]_vars

\* the tags tool has returned its report
TagsReported == call.op = "Tags" /\ pc = "done" /\ ret.status = "ok"

\* the notes the scan has read: the files of the list that ReadNote returns
TagScanned ==
    {scan.files[i].path : i \in {j \in DOMAIN scan.files :
                                    ReadNote(cfg, fs, scan.files[j].path).ret.status = "ok"}}

\* the tag set of a scanned note: the tags of its frontmatter and of its text,
\* in small letters
TagSet(path) ==
    {ToLower(t) : t \in FrontmatterTags(ReadNote(cfg, fs, path).ret.note.Frontmatter) \cup
                        InlineTagsFrom(ReadNote(cfg, fs, path).ret.note.Content, 0)}

\* the distinct tags of the scanned notes
DistinctTags == UNION {TagSet(q) : q \in TagScanned}

\* the scanned notes whose tag set holds the tag
NotesTagged(tag) == {q \in TagScanned : tag \in TagSet(q)}

----------------------------------------------------------------------------
(* SpecFilter: IsAllowed of a filter made from a caller's configuration      *)

ObsidianFile == <<".", "o", "b", "s", "i", "d", "i", "a", "n", "/", "a", "p", "p", ".", "j", "s", "o", "n">>

GitConfig == <<".", "g", "i", "t", "/", "c", "o", "n", "f", "i", "g">>

ModuleFile ==
    <<"n", "o", "d", "e", "_", "m", "o", "d", "u", "l", "e", "s", "/", "x", "/",
      "i", "n", "d", "e", "x", ".", "j", "s">>

DSStore == <<".", "D", "S", "_", "S", "t", "o", "r", "e">>

ThumbsDb == <<"T", "h", "u", "m", "b", "s", ".", "d", "b">>

VersionedNote ==
    <<"n", "o", "t", "e", "s", "/", "M", "y", " ", "N", "o", "t", "e", " ",
      "(", "v", "2", ")", ".", "m", "d">>

\* the paths the built-in patterns name
NamedPaths == {ObsidianFile, GitConfig, ModuleFile, DSStore, ThumbsDb}

\* the directories the built-in patterns close
ClosedDirs ==
    {<<".", "o", "b", "s", "i", "d", "i", "a", "n", "/">>,
     <<".", "g", "i", "t", "/">>,
     <<"n", "o", "d", "e", "_", "m", "o", "d", "u", "l", "e", "s", "/">>}

\* the characters of what follows the directory in a path, and the most of them
TailChars == {"a", ".", "/", "\n"}

MaxTailLen == 3

\* the paths beneath the directories
BeneathPaths == {d \o t : d \in ClosedDirs, t \in SeqsUpTo(TailChars, MaxTailLen) \ {<<>>}}

FilterPaths == NamedPaths \cup BeneathPaths \cup {VersionedNote}

\* what a caller may add: a pattern for a folder, for everything, one written
\* like a negation of a built-in pattern; an extension, the empty extension
CallerPatterns ==
    {<<>>, << <<"v", "/", "*">> >>, << <<"*", "*">> >>,
     << <<"!", ".", "g", "i", "t", "/", "*", "*">> >>}

CallerExtensions ==
    {<<>>, << <<".", "j", "s">> >>, << <<".", "j", "s", "o", "n">>, <<".", "d", "b">> >>, << <<>> >>}

FilterConfigs ==
    {[IgnoredPatterns |-> p, AllowedExtensions |-> e] :
        p \in CallerPatterns, e \in CallerExtensions}

InitFilter ==
    /\ \E c \in FilterConfigs : cfg = NewPathFilter(c)
    /\ fs = EmptyVault
    /\ pre = fs
    /\ call \in {[op |-> "IsAllowed", path |-> p] : p \in FilterPaths}
    /\ ret = NoRet
    /\ log = <<>>
    /\ pc = "ready"
    /\ scan = NoScan

\* pf.IsAllowed(path)
CheckPath ==
    /\ pc = "ready"
    /\ ret' = [status |-> "ok", allowed |-> IsAllowed(cfg, call.path)]
    /\ pc' = "done"
    /\ UNCHANGED <<cfg, fs, pre, call, log, scan>>

NextFilter == CheckPath

SpecFilter == InitFilter /\ [][NextFilter]_vars

\* the filter is the default one
DefaultFilter == cfg = NewPathFilter(NilConfig)

\* the path lies beneath a top-level .obsidian, .git or node_modules directory
Beneath(path) == \E d \in ClosedDirs : HasPrefix(path, d) /\ Len(path) > Len(d)

\* C30: with the default configuration and with every configuration of a
\* caller, IsAllowed refuses .obsidian/app.json, .git/config,
\* node_modules/x/index.js, .DS_Store, Thumbs.db and every path beneath a
\* top-level .obsidian, .git or node_modules directory; with the default
\* configuration it admits "notes/My Note (v2).md"
C30_BuiltInsRefuse ==
    pc = "done"
    => /\ (call.path \in NamedPaths \/ Beneath(call.path)) => ~ret.allowed
       /\ (DefaultFilter /\ call.path = VersionedNote) => ret.allowed

----------------------------------------------------------------------------
(* SpecExtension: IsAllowed on short paths, for the rule on extensions       *)

\* the characters of the short paths, and the most of them in a path
NameChars == {"a", "A", ".", "/", "-"}

MaxNameLen == 4

ProjectDir == <<"1", ".", " ", "P", "r", "o", "j", "e", "c", "t">>

\* an extension of ten characters, and one of eleven
TenChars == <<"a", ".", "a", "a", "a", "a", "a", "a", "a", "a", "a", "a">>

ElevenChars == TenChars \o <<"a">>

\* paths with the built-in extensions, with others, and with none
NamedFiles ==
    {<<"n", "o", "t", "e", "s">>, ProjectDir, <<".", "g", "i", "t", "i", "g", "n", "o", "r", "e">>,
     MdSuffix, NotePath, <<"a", ".", "M", "D">>, <<"a", ".", "t", "x", "t">>, ScriptPath,
     <<"a", ".", "j", "s", "/">>, <<"v", "\\", "a", ".", "j", "s">>, TenChars, ElevenChars}

ExtensionPaths == SeqsUpTo(NameChars, MaxNameLen) \cup NamedFiles

\* what a caller may add: an extension with its dot, in capitals, without the
\* dot; and a pattern for a folder
ExtensionConfigs ==
    {NilConfig,
     [IgnoredPatterns |-> <<>>, AllowedExtensions |-> << <<".", "a">> >>],
     [IgnoredPatterns |-> <<>>, AllowedExtensions |-> << <<".", "A">> >>],
     [IgnoredPatterns |-> <<>>, AllowedExtensions |-> << <<"a">> >>],
     [IgnoredPatterns |-> << <<"a", "/", "*">> >>, AllowedExtensions |-> << <<".", "a">> >>]}

InitExtension ==
    /\ \E c \in ExtensionConfigs : cfg = NewPathFilter(c)
    /\ fs = EmptyVault
    /\ pre = fs
    /\ call \in {[op |-> "IsAllowed", path |-> p] : p \in ExtensionPaths}
    /\ ret = NoRet
    /\ log = <<>>
    /\ pc = "ready"
    /\ scan = NoScan

SpecExtension == InitExtension /\ [][NextFilter]_vars

\* the path of the call with "/" for every separator
AskedPath == NormalizeSeparators(call.path)

\* an ignore pattern of the filter matches the path
Ignored == \E i \in DOMAIN cfg.ignoredPatterns : simpleGlobMatch(cfg.ignoredPatterns[i], AskedPath)

\* the final segment of a path: what follows its last "/"
FinalSegment(path) ==
    IF \E i \in DOMAIN path : path[i] = "/"
    THEN SubSeq(path, 1 + CHOOSE i \in DOMAIN path :
                              path[i] = "/" /\ \A j \in (i + 1)..Len(path) : path[j] # "/",
                Len(path))
    ELSE path

\* the recognizable extensions of a segment: what follows a dot that is not
\* its first character, if that is 1 to 10 alphanumeric characters
Extensions(segment) ==
    {SubSeq(segment, k + 1, Len(segment)) :
        k \in {j \in 2..Len(segment) :
                  /\ segment[j] = "."
                  /\ Len(segment) - j \in 1..MaxExtLen
                  /\ \A m \in (j + 1)..Len(segment) : IsAlnum(segment[m])}}

\* the extension is an entry of the allow-list, written there with or without
\* its dot, whatever the case of its letters
InAllowList(extension) ==
    \E i \in DOMAIN cfg.allowedExtensions :
        ToLower(cfg.allowedExtensions[i]) \in {ToLower(extension), ToLower(<<".">> \o extension)}

\* C31: for a path that no ignore pattern matches, IsAllowed returns false
\* exactly when the final segment of the path has a recognizable extension
\* that is not in the allow-list; a path without one is not refused for its
\* extension
C31_ExtensionRule ==
    (pc = "done" /\ ~Ignored)
    => (~ret.allowed <=> \E e \in Extensions(FinalSegment(AskedPath)) : ~InAllowList(e))

----------------------------------------------------------------------------
(* SpecGlob: one ignore pattern tried on one path, as IsAllowed tries it     *)

GlobChars == {"a", "*", "?", "."}

GlobPathChars == {"a", "/", ".", "\n"}

\* the most characters of a pattern and of a path
MaxGlobLen == 3

ArchivePattern == <<"a", "r", "c", "h", "i", "v", "e", "/", "*", "*">>

TempPattern == <<"t", "e", "m", "p", "*", "/", "*", "*">>

\* patterns of the tests, one with parentheses, one with a backslash
NamedPatterns ==
    {ArchivePattern, TempPattern, <<"(", "a", ")", "/", "*", "*">>, <<"v", "\\", "*">>}

GlobPatterns == (SeqsUpTo(GlobChars, MaxGlobLen) \ {<<>>}) \cup NamedPatterns

NamedGlobPaths ==
    {<<"a", "r", "c", "h", "i", "v", "e", "/", "2", "0", "2", "4", "/", "j", "a", "n", "/",
       "n", "o", "t", "e", ".", "m", "d">>,
     <<"o", "t", "h", "e", "r", "/", "a", "r", "c", "h", "i", "v", "e", "/", "n", "o", "t", "e", ".", "m", "d">>,
     <<"t", "e", "m", "p", "o", "r", "a", "r", "y", "/", "f", "i", "l", "e", ".", "m", "d">>,
     <<"a", "t", "e", "m", "p", "/", "f", "i", "l", "e", ".", "m", "d">>,
     <<"(", "a", ")", "/", "a">>, <<"a", "/", "a">>, <<"v", "\\", "a">>, <<"v", "/", "a", "/", "a">>}

GlobPaths == SeqsUpTo(GlobPathChars, MaxGlobLen) \cup NamedGlobPaths

InitGlob ==
    /\ cfg = NewPathFilter(NilConfig)
    /\ fs = EmptyVault
    /\ pre = fs
    /\ call \in {[op |-> "simpleGlobMatch", pattern |-> p, path |-> q] :
                    p \in GlobPatterns, q \in GlobPaths}
    /\ ret = NoRet
    /\ log = <<>>
    /\ pc = "ready"
    /\ scan = NoScan

\* pf.simpleGlobMatch(pattern, normalizedPath) in the loop of IsAllowed
TryPattern ==
    /\ pc = "ready"
    /\ ret' = [status |-> "ok",
               matched |-> simpleGlobMatch(call.pattern, NormalizeSeparators(call.path))]
    /\ pc' = "done"
    /\ UNCHANGED <<cfg, fs, pre, call, log, scan>>

NextGlob == TryPattern

SpecGlob == InitGlob /\ [][NextGlob]_vars

RECURSIVE GlobCovers(_, _)
\* the pattern, read as a glob, covers the whole of s: "**" stands for any run
\* of characters, "*" for a run without "/", "?" for one character of a
\* segment, every other character for itself
GlobCovers(p, s) ==
    IF p = <<>> THEN s = <<>>
    ELSE IF Len(p) >= 2 /\ p[1] = "*" /\ p[2] = "*"
    THEN \E n \in 0..Len(s) : GlobCovers(SubSeq(p, 3, Len(p)), SubSeq(s, n + 1, Len(s)))
    ELSE IF p[1] = "*"
    THEN \E n \in 0..Len(s) :
            /\ \A i \in 1..n : s[i] # "/"
            /\ GlobCovers(Tail(p), SubSeq(s, n + 1, Len(s)))
    ELSE /\ s # <<>>
         /\ IF p[1] = "?" THEN s[1] # "/" ELSE s[1] = p[1]
         /\ GlobCovers(Tail(p), Tail(s))

\* C32: an ignore pattern matches a path exactly when, read as a glob, it
\* covers the whole separator-normalized path: "**" any run of characters
\* across segments, "*" a run within one segment, "?" one character, every
\* other character of the pattern itself
C32_GlobMatchesWhole ==
    pc = "done"
    => (ret.matched <=> GlobCovers(NormalizeSeparators(call.pattern),
                                   NormalizeSeparators(call.path)))

----------------------------------------------------------------------------
(* SpecProtected: IsAllowed on paths through the protected directories       *)

\* the names of the protected directories
ProtectedNames ==
    {<<".", "o", "b", "s", "i", "d", "i", "a", "n">>, GitDir,
     <<"n", "o", "d", "e", "_", "m", "o", "d", "u", "l", "e", "s">>}

\* what comes before a protected directory in a path
OuterDirs == {<<>>, <<"v", "/">>, <<"a", "/", "b", "/">>, <<"v", "\\">>}

\* what comes after it
InnerPaths ==
    {<<>>, <<"/">>, <<"/", "c", ".", "m", "d">>, <<"/", "c", "o", "n", "f", "i", "g">>,
     <<"/", "a", "/", "c", ".", "m", "d">>, <<"\\", "c", ".", "m", "d">>}

\* paths with a protected directory at some depth
ProtectedPaths == {o \o d \o i : o \in OuterDirs, d \in ProtectedNames, i \in InnerPaths}

\* paths without one: names that only hold the name of a protected directory
PlainPaths ==
    {NotePath, SubNote, <<"x", ".", "g", "i", "t", "/", "c", ".", "m", "d">>,
     <<".", "g", "i", "t", "x", "/", "c", ".", "m", "d">>, <<".", "g", "i", "t", ".", "m", "d">>}

InitProtected ==
    /\ \E c \in FilterConfigs : cfg = NewPathFilter(c)
    /\ fs = EmptyVault
    /\ pre = fs
    /\ call \in {[op |-> "IsAllowed", path |-> p] : p \in ProtectedPaths \cup PlainPaths}
    /\ ret = NoRet
    /\ log = <<>>
    /\ pc = "ready"
    /\ scan = NoScan

SpecProtected == InitProtected /\ [][NextFilter]_vars

RECURSIVE SegmentsOf(_)
\* the segments of a path whose separators are "/"
SegmentsOf(path) ==
    IF \A i \in DOMAIN path : path[i] # "/" THEN {path}
    ELSE {SubSeq(path, 1, (CHOOSE i \in DOMAIN path :
                              path[i] = "/" /\ \A j \in 1..(i - 1) : path[j] # "/") - 1)} \cup
         SegmentsOf(SubSeq(path, 1 + (CHOOSE i \in DOMAIN path :
                                         path[i] = "/" /\ \A j \in 1..(i - 1) : path[j] # "/"),
                           Len(path)))

\* the path has a segment that names a protected directory
ThroughProtected(path) == SegmentsOf(NormalizeSeparators(path)) \cap ProtectedNames # {}

\* C33: IsAllowed returns false for every path with a segment named
\* .obsidian, .git or node_modules, at any depth, the path of such a
\* directory itself included
C33_ProtectedAtAnyDepth ==
    (pc = "done" /\ ThroughProtected(call.path)) => ~ret.allowed

----------------------------------------------------------------------------
(* The merged entries of the related tool, in SpecScan                       *)

\* the related tool has returned its list
RelatedReported == call.op = "Related" /\ pc = "done" /\ ret.status = "ok"

\* the source note as the tool read it before the scan
SourceNote == ReadNote(cfg, pre, TrimSpace(call.input.Path)).ret.note

\* the tags and the links are looked at
TagsWanted == call.input.Tags \/ ~call.input.Links

LinksWanted == call.input.Links \/ ~call.input.Tags

\* the tag set of the source, if tags are looked at
SourceTagSet ==
    IF TagsWanted
    THEN {ToLower(t) : t \in FrontmatterTags(SourceNote.Frontmatter) \cup
                             InlineTagsFrom(SourceNote.Content, 0)}
    ELSE {}

\* the relation kinds the candidate at path earns, in the order shared-tags,
\* backlink, outgoing
EarnedKinds(path) ==
    (IF SourceTagSet \cap TagSet(path) # {} THEN <<RelSharedTags>> ELSE <<>>) \o
    (IF /\ LinksWanted
        /\ \E l \in extractLinks(ReadNote(cfg, fs, path).ret.note.Content) :
              EqualFold(l, NoteName(TrimSpace(call.input.Path)))
     THEN <<RelBacklink>> ELSE <<>>) \o
    (IF /\ LinksWanted
        /\ \E l \in extractLinks(SourceNote.Content) : EqualFold(l, NoteName(path))
     THEN <<RelOutgoing>> ELSE <<>>)

----------------------------------------------------------------------------
(* SpecSpelling: the related tool asked about notes under several spellings  *)
(* of their paths                                                            *)

\* spellings of the paths of a.md, b.md and v/b.md that ReadNote takes
Spellings ==
    {NotePath, <<"/">> \o NotePath, <<".", "/">> \o NotePath, <<" ">> \o NotePath,
     <<"v", "/", ".", ".", "/">> \o NotePath,
     LinkedPath, SubNote, <<"/">> \o SubNote, <<"v", "/", "/", "b", ".", "m", "d">>}

InitSpelling ==
    /\ cfg = NewPathFilter(NilConfig)
    /\ fs \in PoolVaults
    /\ pre = fs
    /\ call \in {[op |-> "Related", a |-> a, b |-> b, Tags |-> tags] :
                    a \in Spellings, b \in Spellings, tags \in BOOLEAN}
    /\ ret = NoRet
    /\ log = <<>>
    /\ pc = "first"
    /\ scan = [first |-> NoRet]

SpecSpelling == InitSpelling /\ [][NextLinks]_vars

\* the answer r to a call about the note spelled path lists that note
ListsItself(r, path) ==
    /\ r.status = "ok"
    /\ \E i \in DOMAIN r.Related :
          ResolvePath(r.Related[i].Path).abs = ResolvePath(path).abs

\* C35: Related never lists the note it is asked about, however the path of
\* the note is spelled
C35_NeverListsSource ==
    /\ ~ListsItself(scan.first, call.a)
    /\ ~ListsItself(ret, call.b)

----------------------------------------------------------------------------
(* The edit tool: handleEdit of cmd/obsidian-mcp/handlers.go, and SpecEdit   *)

\* the outputs of handleEdit
EditFailed(path, kind) == [status |-> "error", err |-> kind, Success |-> FALSE, Path |-> path]

EditDone(path, replacements) ==
    [status |-> "ok", Success |-> TRUE, Path |-> path, Replacements |-> replacements]

\* handleEdit from the return of WriteNote on
EditAnswered(path, replacements, w, lg) ==
    IF w.ret.status = "panic" THEN Out([status |-> "panic"], w.fs, lg \o w.log)
    ELSE IF w.ret.status = "error"
    THEN Out(EditFailed(path, w.ret.err), w.fs, lg \o w.log)
    ELSE Out(EditDone(path, replacements), w.fs, lg \o w.log)

\* the frontmatter update: the note's frontmatter with the caller's copied
\* over it, written with the note's body
EditFrontmatter(pf, f, path, input, note, replacements, lg) ==
    IF input.Frontmatter = Nil THEN Out(EditDone(path, replacements), f, lg)
    ELSE EditAnswered(path, replacements,
                      WriteNote(pf, f, [Path |-> path, Content |-> note.Content,
                                        Frontmatter |-> MapsCopy(note.Frontmatter,
                                                                 input.Frontmatter),
                                        Mode |-> "overwrite"]),
                      lg)

\* after the replaced text is written: the note is read again if there is a
\* frontmatter to update
EditReread(pf, f, path, input, replacements, rd, lg) ==
    IF input.Frontmatter = Nil THEN Out(EditDone(path, replacements), f, lg)
    ELSE IF rd.ret.status = "panic" THEN Out([status |-> "panic"], f, lg \o rd.log)
    ELSE IF rd.ret.status = "error"
    THEN Out(EditFailed(path, rd.ret.err), f, lg \o rd.log)
    ELSE EditFrontmatter(pf, f, path, input, rd.ret.note, replacements, lg \o rd.log)

\* handleEdit from os.WriteFile of the replaced text on
EditWritten(pf, path, input, replacements, w, lg) ==
    IF w.err # "None" THEN Out(EditFailed(path, "WriteFailed"), w.fs, lg)
    ELSE EditReread(pf, w.fs, path, input, replacements, ReadNote(pf, w.fs, path), lg)

\* the text replacement, given the count of oldText in the note
EditReplaced(pf, f, path, input, note, occurrences, r, lg) ==
    IF occurrences = 0 THEN Out(EditFailed(path, "NotFound"), f, lg)
    ELSE IF ~input.ReplaceAll /\ occurrences > 1
    THEN Out(EditFailed(path, "Ambiguous"), f, lg)
    ELSE IF ~r.ok THEN Out(EditFailed(path, "Traversal"), f, lg)
    ELSE EditWritten(pf, path, input, IF input.ReplaceAll THEN occurrences ELSE 1,
                     osWriteFile(f, r.abs,
                                 IF input.ReplaceAll
                                 THEN ReplaceAll(note.OriginalContent, input.OldText,
                                                 input.NewText)
                                 ELSE Replace(note.OriginalContent, input.OldText,
                                              input.NewText, 1)),
                     lg \o <<Ev("Resolve", path, TRUE), Ev("WriteFile", r.abs, TRUE)>>)

\* handleEdit from the first ReadNote on
EditRead(pf, f, path, input, rd) ==
    IF rd.ret.status = "panic" THEN Out([status |-> "panic"], f, rd.log)
    ELSE IF rd.ret.status = "error" THEN Out(EditFailed(path, rd.ret.err), f, rd.log)
    ELSE IF input.OldText # <<>>
    THEN EditReplaced(pf, f, path, input, rd.ret.note,
                      Count(rd.ret.note.OriginalContent, input.OldText),
                      ResolvePath(path), rd.log)
    ELSE EditFrontmatter(pf, f, path, input, rd.ret.note, 0, rd.log)

\* handleEdit
handleEdit(pf, f, input) ==
    EditRead(pf, f, TrimSpace(input.Path), input, ReadNote(pf, f, TrimSpace(input.Path)))

\* the texts of the note that is edited
EditTexts == {<<"x">>, <<"x", " ", "x">>, FmText, <<"k">>}

\* a vault with the note, a folder and a script
EditVault(text) ==
    VaultOf({At(Under(NotePath), FileNode(text)), At(Under(SubDir), DirNode),
             At(Under(ScriptPath), FileNode(<<"x">>))})

EditPaths == {NotePath, <<" ">> \o NotePath, FreshPath, ScriptPath, SubDir, OutsidePath}

EditCalls ==
    {[op |-> "edit",
      input |-> [Path |-> p, OldText |-> o, NewText |-> n, ReplaceAll |-> a,
                 Frontmatter |-> fm]] :
        p \in EditPaths, o \in {<<>>, <<"x">>, <<"k">>, <<"z">>}, n \in {<<>>, <<"y">>},
        a \in BOOLEAN, fm \in Frontmatters}

InitEdit ==
    /\ cfg = NewPathFilter(NilConfig)
    /\ fs \in {EditVault(t) : t \in EditTexts}
    /\ pre = fs
    /\ call \in EditCalls
    /\ ret = NoRet
    /\ log = <<>>
    /\ pc = "ready"
    /\ scan = NoScan

\* one call of the edit tool
DoEdit ==
    /\ pc = "ready"
    /\ ret' = handleEdit(cfg, fs, call.input).ret
    /\ fs' = handleEdit(cfg, fs, call.input).fs
    /\ log' = handleEdit(cfg, fs, call.input).log
    /\ pc' = IF handleEdit(cfg, fs, call.input).ret.status = "panic" THEN "crashed"
             ELSE "done"
    /\ UNCHANGED <<cfg, pre, call, scan>>

NextEdit == DoEdit

SpecEdit == InitEdit /\ [][NextEdit]_vars

\* C36: whenever a call of the edit tool returns an error, the note on disk
\* is what it was before the call
C36_AllOrNothing ==
    (pc = "done" /\ ret.status = "error") => fs = pre

----------------------------------------------------------------------------
(* ResolvePath on the paths that stay in the vault, in SpecResolve           *)

\* C37: ResolvePath succeeds for every relative path whose canonical location
\* is the vault root or beneath it, a path whose first element merely begins
\* with two dots included
C37_OnlyEscapingRejected ==
    (pc = "done" /\ call.op = "ResolvePath" /\ InVault(CanonicalLocation(call.path)))
    => ret.ok

----------------------------------------------------------------------------
(* SpecCount: the tags tool on vaults with notes in ignored folders          *)

ModulesDir == <<"n", "o", "d", "e", "_", "m", "o", "d", "u", "l", "e", "s">>

ModulesNote == ModulesDir \o <<"/", "x", ".", "m", "d">>

\* the notes of the vaults: one at the top, one in the folder a caller may
\* ignore, one in the dependency folder
CountedPaths == {NotePath, SubNote, ModulesNote}

\* the folder a note lies in, for the notes in folders
FolderOf(q) == IF q = SubNote THEN {SubDir} ELSE IF q = ModulesNote THEN {ModulesDir} ELSE {}

\* the vaults with some of the notes, each with two tags or with none
CountVaults ==
    {VaultOf({At(Under(q), FileNode(t[q])) : q \in S} \cup
             {At(Under(d), DirNode) : d \in UNION {FolderOf(q) : q \in S}}) :
        S \in SUBSET CountedPaths, t \in [CountedPaths -> {TwoTags, <<"x">>}]}

InitCount ==
    /\ cfg \in Configs
    /\ fs \in CountVaults
    /\ pre = fs
    /\ call = [op |-> "Tags", input |-> <<>>]
    /\ ret = NoRet
    /\ log = <<>>
    /\ pc = "start"
    /\ \E n \in 1..MaxCPU :
          scan = [cpus |-> n, gone |-> NoPath, files |-> <<>>, ctx |-> <<>>, fed |-> 0,
                  fileCh |-> <<>>, fileClosed |-> FALSE, resultsCh |-> <<>>,
                  closes |-> 0, w |-> <<>>, wg |-> 0, closer |-> "none",
                  received |-> <<>>]

SpecCount == InitCount /\ [][NextTags]_vars

\* the notes of the vault that pass the filter: the files named *.md whose
\* path relative to the vault IsAllowed admits
PassingNotes ==
    {q \in CountedPaths : Under(q) \in DOMAIN fs /\ IsAllowed(cfg, q)}

\* C38: in the report of Tags notesWithTags is at most totalNotes, and
\* totalNotes is the number of notes that pass the filter: a note in an
\* ignored folder is neither scanned for tags nor counted
C38_TotalCountsAdmitted ==
    TagsReported
    => /\ ret.NotesWithTags <= ret.TotalNotes
       /\ ret.TotalNotes = Cardinality(PassingNotes)
----------------------------------------------------------------------------
(* SpecTaken: the scans of SpecScan with a record of which worker took which *)
(* file                                                                      *)

\* a vault whose broken note is not the last of its files
BrokenMidway ==
    VaultOf(ScanBase \cup {e \in ScanNotes : e.at \in {Under(q) : q \in {NotePath, BrokenPath, SubNote}}})

InitTaken ==
    /\ cfg = NewPathFilter(NilConfig)
    /\ fs \in PoolVaults \cup {BrokenMidway}
    /\ pre = fs
    /\ call \in {c \in ScanCalls : c.op \in ScanTools}
    /\ ret = [status |-> "none"]
    /\ log = <<>>
    /\ pc = "start"
    /\ \E n \in 1..MaxCPU, g \in MarkdownIn(fs) \cup {NoPath} :
          scan = [cpus |-> n, gone |-> g, files |-> <<>>, ctx |-> <<>>, fed |-> 0,
                  fileCh |-> <<>>, fileClosed |-> FALSE, resultsCh |-> <<>>,
                  closes |-> 0, w |-> <<>>, wg |-> 0, closer |-> "none",
                  received |-> <<>>]

\* for file := range fileCh: worker w takes a file and reads it; the log notes
\* the worker and the file
TakeNoted(w) ==
    /\ Running
    /\ w \in DOMAIN scan.w
    /\ scan.w[w].at = "recv"
    /\ scan.fileCh # <<>>
    /\ Taken(w, FileSends(call.op, cfg, fs, Head(scan.fileCh), scan.ctx))
    /\ log' = Append(log, [worker |-> w, file |-> Head(scan.fileCh)])
    /\ UNCHANGED <<cfg, fs, pre, call>>

NextTaken ==
    \/ StartScan
    \/ Feed
    \/ CloseFiles
    \/ SpawnCloser
    \/ Receive
    \/ Finish
    \/ CloseResults
    \/ \E w \in 1..MaxCPU : TakeNoted(w) \/ Send(w) \/ Exit(w)

SpecTaken == InitTaken /\ [][NextTaken]_vars

\* the files the scan enumerated
Enumerated == {scan.files[i] : i \in DOMAIN scan.files}

\* the takes of a file
TakesOf(file) == {i \in DOMAIN log : log[i].file = file}

\* no file has been taken twice, and every take is one of an enumerated file
\* by a worker of the pool
AtMostOnce ==
    /\ \A i \in DOMAIN log :
          /\ log[i].file \in Enumerated
          /\ log[i].worker \in 1..NumWorkers(scan.cpus, scan.files)
    /\ \A file \in Enumerated : Cardinality(TakesOf(file)) <= 1

\* C39: in a scan of SearchAdvanced, Related or Tags every enumerated file is
\* taken from the work queue by one worker and processed once: none is taken
\* twice at any time, and none is left untaken when the scan is over, in
\* whatever order the goroutines take their steps and for every number of
\* workers
C39_EachFileOnce ==
    /\ AtMostOnce
    /\ ScanOver => \A file \in Enumerated : Cardinality(TakesOf(file)) = 1
----------------------------------------------------------------------------
(* The queue of results of a scan                                            *)

\* the most results a worker sends for one file
SendsPerFile == IF call.op = "Related" THEN 3 ELSE 1

\* the results a worker has yet to send for the file it took
Unsent(w) == Len(scan.w[w].out)

\* worker w stands at its send with room in the queue
RoomToSend(w) ==
    scan.w[w].at = "send" => Len(scan.resultsCh) < Capacity(call.op, scan.files)

\* C40: the queue of results of a scan never holds more than its capacity,
\* which is the number of files for SearchAdvanced and Tags and three times
\* the number of files for Related; a worker sends at most one result for a
\* file, a worker of Related at most three, and a worker that is to send finds
\* room in the queue, so that none blocks at a send
C40_QueueNeverFull ==
    /\ Len(scan.resultsCh) <= SendsPerFile * Len(scan.files)
    /\ Len(scan.resultsCh) <= Capacity(call.op, scan.files)
    /\ \A w \in DOMAIN scan.w : Unsent(w) <= SendsPerFile /\ RoomToSend(w)

\* a scan of Related with the three results of one file in the queue and a
\* worker about to send one more
C40_Witness ==
    /\ call.op = "Related"
    /\ Len(scan.resultsCh) >= 3
    /\ \E i \in DOMAIN scan.resultsCh :
          /\ i + 2 \in DOMAIN scan.resultsCh
          /\ scan.resultsCh[i].relPath = scan.resultsCh[i + 2].relPath
    /\ \E w \in DOMAIN scan.w : scan.w[w].at = "send"
====
